---- MODULE Spec2Model ----
(***************************************************************************)
(* Flappy Bird: the state-transition engine (state.ts), the deterministic  *)
(* RNG (util.ts) and the action-stream composition (observable.ts).        *)
(*                                                                         *)
(* Numbers.  Times are integers in milliseconds.  Every real quantity      *)
(* (positions, velocities, radii, normalized gap values, the speed         *)
(* multiplier) is a fixed-point integer: real value * Unit.  Unit is       *)
(* chosen so that every quantity the engine derives from its constants     *)
(* (GRAVITY 0.5, SHRINK_SCALE 0.6, the slow-down decay in steps of one     *)
(* tick) is exact; only a random draw is truncated to 1/Unit.              *)
(***************************************************************************)
EXTENDS Integers, Sequences, FiniteSets, TLC

\* ---------------------------------------------------------------- constants
CANVAS_WIDTH == 600
CANVAS_HEIGHT == 400
BIRB_WIDTH == 42
BIRB_HEIGHT == 30
PIPE_WIDTH == 50
PIPE_SPEED == 3
FLAP_STRENGTH == -7
BOUNCE_VELOCITY_MIN == 4
BOUNCE_VELOCITY_MAX == 7
COLLISION_COOLDOWN_MS == 500
TICK_RATE_MS == 16
INITIAL_LIVES == 3
OFFSCREEN_THRESHOLD == -50
COUNTDOWN_DURATION_MS == 1000
POWERUP_SIZE == 20
POWERUP_SPEED == 1
SHRINK_DURATION == 6000
SLOW_DOWN_DURATION == 8000
INITIAL_SEED == 123456789
RNG_a == 1103515245
RNG_c == 12345
\* RNG.m - 1 with RNG.m = 0x80000000 (RNG.m itself is not a 32-bit integer)
RNG_mMinus1 == 2147483647

\* one pixel, one unit of a normalized value, a multiplier of 1.0
Unit == (SLOW_DOWN_DURATION \div TICK_RATE_MS) * 10
Px(n) == n * Unit
\* product of two fixed-point numbers
FMul(a, b) == (a * b) \div Unit

GRAVITY == Unit \div 2
SHRINK_SCALE == (6 * Unit) \div 10
SLOW_DOWN_MIN_MULTIPLIER == (3 * Unit) \div 10
INITIAL_X == (CANVAS_WIDTH * 3 * Unit) \div 10
INITIAL_Y == (CANVAS_HEIGHT * Unit) \div 2

Min2(a, b) == IF a < b THEN a ELSE b
Max2(a, b) == IF a > b THEN a ELSE b

\* ---------------------------------------------------------------- util.ts
clamp(inputValue, minBound, maxBound) ==
    Max2(minBound, Min2(maxBound, inputValue))

RECURSIVE BitLen(_)
BitLen(n) == IF n = 0 THEN 0 ELSE 1 + BitLen(n \div 2)

\* carry * 2^31 + v, plus add (0 <= v, add < 2^31)
AddCarry(low, add) ==
    IF low.v > RNG_mMinus1 - add
      THEN [c |-> low.c + 1, v |-> low.v - (RNG_mMinus1 - add) - 1]
      ELSE [c |-> low.c, v |-> low.v + add]

\* hh * 2^32 + (m1 + m2) * 2^16 + low as hi * 2^31 + lo, for m1, m2 < 2^31;
\* (m1 + m2) * 2^16 = (m \div 2^15) * 2^31 + (m % 2^15) * 2^16
MulWideSum(hh, m1, m2, low) ==
    [hi |-> 2 * hh + (m1 \div 2^15) + (m2 \div 2^15)
              + (((m1 % 2^15) + (m2 % 2^15)) \div 2^15)
              + AddCarry(low, (((m1 % 2^15) + (m2 % 2^15)) % 2^15) * 2^16).c,
     lo |-> AddCarry(low, (((m1 % 2^15) + (m2 % 2^15)) % 2^15) * 2^16).v]

\* (x1 * 2^16 + x0) * (y1 * 2^16 + y0); x0 * y0 can reach 2^32, so x0 is
\* split once more: x0 * y0 = 2 * ((x0 \div 2) * y0) + (x0 % 2) * y0
MulWideParts(x1, x0, y1, y0) ==
    MulWideSum(x1 * y1, x1 * y0, x0 * y1,
               AddCarry(AddCarry([c |-> 0, v |-> (x0 \div 2) * y0], (x0 \div 2) * y0),
                        (x0 % 2) * y0))

\* x * y for 0 <= x, y < 2^31 as hi * 2^31 + lo, without leaving 32 bits
MulWide(x, y) == MulWideParts(x \div 2^16, x % 2^16, y \div 2^16, y % 2^16)

\* (hi, lo) + (hi2, lo2)
AddWide(p, q) ==
    IF p.lo > RNG_mMinus1 - q.lo
      THEN [hi |-> p.hi + q.hi + 1, lo |-> p.lo - (RNG_mMinus1 - q.lo) - 1]
      ELSE [hi |-> p.hi + q.hi, lo |-> p.lo + q.lo]

\* an integer hi * 2^31 + lo rounded to a double: 53 significant bits, ties to even
RoundDouble(p) ==
    LET k == IF p.hi = 0 THEN 0 ELSE Max2(0, BitLen(p.hi) - 22)
        u == 2^k
        r == p.lo % u
        base == p.lo - r
        up == \/ 2 * r > u
              \/ 2 * r = u /\ (base \div u) % 2 = 1
    IN  IF k = 0 \/ r = 0 THEN p
        ELSE IF ~up THEN [hi |-> p.hi, lo |-> base]
        ELSE IF base > RNG_mMinus1 - u THEN [hi |-> p.hi + 1, lo |-> 0]
        ELSE [hi |-> p.hi, lo |-> base + u]

\* RNG.hash(seed + offset): (a * seed + c) % m in double arithmetic
hashOffset(seed, offset) ==
    LET product == RoundDouble(AddWide(MulWide(RNG_a, seed), MulWide(RNG_a, offset)))
        sum     == RoundDouble(AddWide(product, [hi |-> 0, lo |-> RNG_c]))
    IN  sum.lo

hash(seed) == hashOffset(seed, 0)

\* floor(x * n / d) for 0 <= x <= d, without leaving 32 bits
RECURSIVE MulDiv(_, _, _)
MulDiv(x, n, d) ==
    IF n = 0 THEN [q |-> 0, r |-> 0]
    ELSE LET h == MulDiv(x, n \div 2, d)
             dbl == IF h.r >= d - h.r
                      THEN [q |-> 2 * h.q + 1, r |-> h.r - (d - h.r)]
                      ELSE [q |-> 2 * h.q, r |-> 2 * h.r]
         IN  IF n % 2 = 0 THEN dbl
             ELSE IF dbl.r >= d - x
                    THEN [q |-> dbl.q + 1, r |-> dbl.r - (d - x)]
                    ELSE [q |-> dbl.q, r |-> dbl.r + x]

\* RNG.scale01(hash) * (max - min) + min, truncated to 1/Unit
scaleBetween(h, minValue, maxValue) ==
    minValue + (IF h = RNG_mMinus1 THEN maxValue - minValue
                ELSE MulDiv(h, maxValue - minValue, RNG_mMinus1).q)

RandomResult(nextSeed, minValue, maxValue) ==
    [value |-> scaleBetween(nextSeed, minValue, maxValue), seed |-> nextSeed]

randomBetweenOffset(currentSeed, offset, minValue, maxValue) ==
    RandomResult(hashOffset(currentSeed, offset), minValue, maxValue)

randomBetween(currentSeed, minValue, maxValue) ==
    randomBetweenOffset(currentSeed, 0, minValue, maxValue)

\* ---------------------------------------------------------------- state.ts
createBird(x, y) ==
    [pos |-> [x |-> x, y |-> y],
     vel |-> [x |-> 0, y |-> 0],
     radius |-> Px(Min2(BIRB_WIDTH, BIRB_HEIGHT) \div 2 - 8)]

\* gapY, gapHeight: normalized values (fixed-point), scaled to the canvas
createPipe(id, x, gapY, gapHeight) ==
    [id |-> id, x |-> x,
     gapY |-> gapY * CANVAS_HEIGHT,
     gapHeight |-> gapHeight * CANVAS_HEIGHT,
     width |-> Px(PIPE_WIDTH),
     passed |-> FALSE]

createPowerUp(id, x, y, type) ==
    [id |-> id, type |-> type, pos |-> [x |-> x, y |-> y], collected |-> FALSE]

initialState ==
    [bird |-> createBird(INITIAL_X, INITIAL_Y),
     pipes |-> <<>>,
     powerUps |-> <<>>,
     score |-> 0,
     lives |-> INITIAL_LIVES,
     gameEnd |-> FALSE,
     gameWon |-> FALSE,
     gameStarted |-> FALSE,
     isPaused |-> FALSE,
     countdown |-> 0,
     countdownTime |-> 0,
     time |-> 0,
     gameTime |-> 0,
     pipeSpawnQueue |-> <<>>,
     originalPipeSpawnQueue |-> <<>>,
     gameHistory |-> <<>>,
     currentRun |-> <<>>,
     ghostBirds |-> <<>>,
     gameCount |-> 0,
     rngSeed |-> INITIAL_SEED,
     shrinkActive |-> FALSE,
     shrinkEndTime |-> 0,
     slowDownActive |-> FALSE,
     slowDownEndTime |-> 0,
     slowDownMultiplier |-> Unit,
     powerUpsSpawned |-> 0,
     powerUpsCollected |-> 0,
     pipeSpawnIndex |-> 0,
     lastCollisionTime |-> 0,
     lastCollisionPipeId |-> -1]

getCurrentBirdRadius(state) ==
    LET baseRadius == Px(Min2(BIRB_WIDTH, BIRB_HEIGHT) \div 2 - 8)
    IN  IF state.shrinkActive THEN FMul(baseRadius, SHRINK_SCALE) ELSE baseRadius

\* slowDownActive and slowDownEndTime are the fields of the state passed in
getCurrentSpeedMultiplier(slowDownActive, slowDownEndTime, currentTime) ==
    IF ~slowDownActive \/ currentTime >= slowDownEndTime THEN Unit
    ELSE LET elapsed == currentTime - (slowDownEndTime - SLOW_DOWN_DURATION)
             progress == (elapsed * Unit) \div SLOW_DOWN_DURATION
             currentMultiplier ==
                 FMul(SLOW_DOWN_MIN_MULTIPLIER, Unit - progress) + FMul(Unit, progress)
         IN  Min2(Unit, currentMultiplier)

updatePowerUps(powerUps) ==
    SelectSeq(
        [i \in 1..Len(powerUps) |->
            [powerUps[i] EXCEPT !.pos = [x |-> powerUps[i].pos.x - Px(POWERUP_SPEED),
                                        y |-> powerUps[i].pos.y]]],
        LAMBDA p: p.pos.x + Px(POWERUP_SIZE) > Px(OFFSCREEN_THRESHOLD))

checkPowerUpCollision(bird, powerUp) ==
    LET birdLeft == bird.pos.x - bird.radius
        birdRight == bird.pos.x + bird.radius
        birdTop == bird.pos.y - bird.radius
        birdBottom == bird.pos.y + bird.radius
        powerUpLeft == powerUp.pos.x
        powerUpRight == powerUp.pos.x + Px(POWERUP_SIZE)
        powerUpTop == powerUp.pos.y
        powerUpBottom == powerUp.pos.y + Px(POWERUP_SIZE)
    IN  /\ birdRight > powerUpLeft
        /\ birdLeft < powerUpRight
        /\ birdBottom > powerUpTop
        /\ birdTop < powerUpBottom

HasPowerUp(powerUps, type) ==
    \E i \in 1..Len(powerUps) : powerUps[i].type = type /\ ~powerUps[i].collected

\* variant: a power-up is spawned on every Tick of the window after its mark
shouldSpawnPowerUp_ignoresOutstanding(state, seed) ==
    [shouldSpawnShrink |->
         /\ state.gameTime >= 10 * 1000
         /\ state.gameTime * 10 < 101 * 1000,
     shouldSpawnSlowDown |->
         /\ state.gameTime >= 20 * 1000
         /\ state.gameTime * 10 < 201 * 1000,
     nextSeed |-> seed]

shouldSpawnPowerUp(state, seed) ==
    [shouldSpawnShrink |->
         /\ state.gameTime >= 10 * 1000
         /\ state.gameTime * 10 < 101 * 1000
         /\ ~HasPowerUp(state.powerUps, "shrink"),
     shouldSpawnSlowDown |->
         /\ state.gameTime >= 20 * 1000
         /\ state.gameTime * 10 < 201 * 1000
         /\ ~HasPowerUp(state.powerUps, "slowDown"),
     nextSeed |-> seed]

\* variant: the position moves by the velocity before gravity is applied
updateBirdPosition_positionFirst(bird) ==
    [bird EXCEPT
        !.pos = [x |-> bird.pos.x,
                 y |-> clamp(bird.pos.y + bird.vel.y, bird.radius,
                             Px(CANVAS_HEIGHT) - bird.radius)],
        !.vel = [x |-> bird.vel.x, y |-> bird.vel.y + GRAVITY]]

updateBirdPosition(bird) ==
    LET newVelY == bird.vel.y + GRAVITY
        newPosY == bird.pos.y + newVelY
    IN  [bird EXCEPT
            !.pos = [x |-> bird.pos.x,
                     y |-> clamp(newPosY, bird.radius, Px(CANVAS_HEIGHT) - bird.radius)],
            !.vel = [x |-> bird.vel.x, y |-> newVelY]]

\* variant: a flap adds FLAP_STRENGTH to the velocity
flapBird_additive(bird) == [bird EXCEPT !.vel.y = bird.vel.y + Px(FLAP_STRENGTH)]

flapBird(bird) == [bird EXCEPT !.vel = [x |-> bird.vel.x, y |-> Px(FLAP_STRENGTH)]]

bounceBird(bird, bounceVelocity) ==
    [bird EXCEPT !.vel = [x |-> bird.vel.x, y |-> bounceVelocity]]

movePipes(speedMultiplier, pipes) ==
    [i \in 1..Len(pipes) |->
        [pipes[i] EXCEPT !.x = pipes[i].x - FMul(Px(PIPE_SPEED), speedMultiplier)]]

\* variant: a pipe is removed once its right edge has reached the bird
removeOffscreenPipes_atBird(pipes) ==
    SelectSeq(pipes, LAMBDA pipe: pipe.x + pipe.width > INITIAL_X)

removeOffscreenPipes(pipes) ==
    SelectSeq(pipes, LAMBDA pipe: pipe.x + pipe.width > Px(OFFSCREEN_THRESHOLD))

checkBirdPipeCollision(bird, pipe) ==
    LET birdLeft == bird.pos.x - bird.radius
        birdRight == bird.pos.x + bird.radius
        birdTop == bird.pos.y - bird.radius
        birdBottom == bird.pos.y + bird.radius
        pipeLeft == pipe.x
        pipeRight == pipe.x + pipe.width
        \* gapHeight / 2 is exact: gapHeight is a multiple of CANVAS_HEIGHT
        gapTop == pipe.gapY - pipe.gapHeight \div 2
        gapBottom == pipe.gapY + pipe.gapHeight \div 2
    IN  IF birdRight > pipeLeft /\ birdLeft < pipeRight
          THEN birdTop < gapTop \/ birdBottom > gapBottom
          ELSE FALSE

\* variant: only the top of the canvas is a boundary
checkBoundaryCollision_topOnly(bird) == bird.pos.y <= bird.radius

checkBoundaryCollision(bird) ==
    \/ bird.pos.y <= bird.radius
    \/ bird.pos.y >= Px(CANVAS_HEIGHT) - bird.radius

\* a pipe is marked passed once the bird is past its right edge
MarkPassed(bird, pipe) ==
    IF ~pipe.passed /\ bird.pos.x > pipe.x + pipe.width
      THEN [pipe EXCEPT !.passed = TRUE]
      ELSE pipe

\* variant: every passed pipe in view scores again on each call
updateScore_recount(bird, pipes, currentScore) ==
    LET updatedPipes == [i \in 1..Len(pipes) |-> MarkPassed(bird, pipes[i])]
        passedPipes == {i \in 1..Len(pipes) : updatedPipes[i].passed}
    IN  [score |-> currentScore + Cardinality(passedPipes), pipes |-> updatedPipes]

updateScore(bird, pipes, currentScore) ==
    LET updatedPipes == [i \in 1..Len(pipes) |-> MarkPassed(bird, pipes[i])]
        newlyPassedPipes ==
            {i \in 1..Len(pipes) : updatedPipes[i].passed /\ ~pipes[i].passed}
    IN  [score |-> currentScore + Cardinality(newlyPassedPipes), pipes |-> updatedPipes]

\* Array.prototype.find as an index: the first colliding pipe, 0 for undefined
FindCollidedPipe(bird, pipes) ==
    LET hit == {i \in 1..Len(pipes) : checkBirdPipeCollision(bird, pipes[i])}
    IN  IF hit = {} THEN 0 ELSE CHOOSE i \in hit : \A j \in hit : i <= j

\* variant: the pipe struck decides the direction before the boundary does
BounceResult_pipeFirst(bird, pipes, boundaryCollision, randomResult, collided) ==
    IF collided # 0
      THEN [bounceVelocity |-> IF bird.pos.y < pipes[collided].gapY
                                 THEN randomResult.value
                                 ELSE -randomResult.value,
            nextSeed |-> randomResult.seed]
    ELSE IF boundaryCollision
      THEN [bounceVelocity |-> IF bird.pos.y <= bird.radius
                                 THEN randomResult.value
                                 ELSE -randomResult.value,
            nextSeed |-> randomResult.seed]
    ELSE [bounceVelocity |-> randomResult.value, nextSeed |-> randomResult.seed]

\* the direction of the bounce, given the random draw and the pipe struck
BounceResult(bird, pipes, boundaryCollision, randomResult, collided) ==
    IF boundaryCollision
      THEN [bounceVelocity |-> IF bird.pos.y <= bird.radius
                                 THEN randomResult.value
                                 ELSE -randomResult.value,
            nextSeed |-> randomResult.seed]
    ELSE IF collided # 0
      THEN [bounceVelocity |-> IF bird.pos.y < pipes[collided].gapY
                                 THEN randomResult.value
                                 ELSE -randomResult.value,
            nextSeed |-> randomResult.seed]
    ELSE [bounceVelocity |-> randomResult.value, nextSeed |-> randomResult.seed]

calculateBounce(bird, pipes, boundaryCollision, seed) ==
    BounceResult(bird, pipes, boundaryCollision,
                 randomBetween(seed, Px(BOUNCE_VELOCITY_MIN), Px(BOUNCE_VELOCITY_MAX)),
                 FindCollidedPipe(bird, pipes))

\* ---------------------------------------------------------------- Tick
\* variant: the countdown is counted from time 0
newCountdown_fromZero(newTime, countdownTime) ==
    Max2(0, 3 - (newTime \div COUNTDOWN_DURATION_MS))

newCountdown(newTime, countdownTime) ==
    Max2(0, 3 - ((newTime - countdownTime) \div COUNTDOWN_DURATION_MS))

canTakeDamage(newTime, lastCollisionTime) ==
    newTime - lastCollisionTime >= COLLISION_COOLDOWN_MS

\* collidedPipe?.id !== lastCollisionPipeId; collided = 0 stands for undefined,
\* and undefined !== n holds for every number n
isDifferentPipe(pipes, collided, lastCollisionPipeId) ==
    IF collided = 0 THEN TRUE ELSE pipes[collided].id # lastCollisionPipeId

allPipesCleared(currentState, scoredPipes) ==
    /\ currentState.pipeSpawnIndex >= Len(currentState.pipeSpawnQueue)
    /\ Len(scoredPipes) = 0

spawnPowerUpIfNeeded(existingPowerUps, shouldSpawn, powerUpType, seed, seedOffset, idOffset, newTime) ==
    IF ~shouldSpawn THEN existingPowerUps
    ELSE LET middleStart == (Px(CANVAS_HEIGHT) * 33) \div 100
             middleEnd == (Px(CANVAS_HEIGHT) * 67) \div 100
             yPosition == randomBetweenOffset(seed, seedOffset, middleStart,
                                              middleEnd - Px(POWERUP_SIZE))
         IN  Append(existingPowerUps,
                    createPowerUp(newTime + idOffset, Px(CANVAS_WIDTH),
                                  yPosition.value, powerUpType))

\* collision detection, the damage gate, the victory condition and the
\* power-up spawns: the values baseState and the collision response are built from
TickOutcome(currentState, newTime, updatedBird, scored, collectedPowerUps, powerUpsAfterCollection, shrinkActivated, slowDownActivated, collidedPipe, spawnResult) ==
    LET newSlowDownActive ==
            \/ slowDownActivated
            \/ currentState.slowDownActive /\ newTime < currentState.slowDownEndTime
        newSlowDownEndTime ==
            IF slowDownActivated THEN newTime + SLOW_DOWN_DURATION
            ELSE currentState.slowDownEndTime
        boundaryCollision == checkBoundaryCollision(updatedBird)
        hasPhysicalCollision == collidedPipe # 0 \/ boundaryCollision
    IN  [newTime |-> newTime,
         newGameTime |-> currentState.gameTime + TICK_RATE_MS,
         updatedBird |-> updatedBird,
         scoredPipes |-> scored.pipes,
         newScore |-> scored.score,
         workingPowerUps |->
             spawnPowerUpIfNeeded(
                 spawnPowerUpIfNeeded(powerUpsAfterCollection, spawnResult.shouldSpawnShrink,
                                      "shrink", spawnResult.nextSeed, 0, 0, newTime),
                 spawnResult.shouldSpawnSlowDown,
                 "slowDown", spawnResult.nextSeed, 1000, 1, newTime),
         newShrinkActive |->
             \/ shrinkActivated
             \/ currentState.shrinkActive /\ newTime < currentState.shrinkEndTime,
         newShrinkEndTime |->
             IF shrinkActivated THEN newTime + SHRINK_DURATION
             ELSE currentState.shrinkEndTime,
         newSlowDownActive |-> newSlowDownActive,
         newSlowDownEndTime |-> newSlowDownEndTime,
         finalSpeedMultiplier |->
             getCurrentSpeedMultiplier(newSlowDownActive, newSlowDownEndTime, newTime),
         newPowerUpsCollected |-> currentState.powerUpsCollected + Len(collectedPowerUps),
         newPowerUpsSpawned |->
             currentState.powerUpsSpawned
               + (IF spawnResult.shouldSpawnShrink THEN 1 ELSE 0)
               + (IF spawnResult.shouldSpawnSlowDown THEN 1 ELSE 0),
         collidedPipe |-> collidedPipe,
         collidedPipeId |-> IF collidedPipe = 0 THEN -1 ELSE scored.pipes[collidedPipe].id,
         boundaryCollision |-> boundaryCollision,
         hasPhysicalCollision |-> hasPhysicalCollision,
         hasDamageCollision |->
             /\ hasPhysicalCollision
             /\ \/ canTakeDamage(newTime, currentState.lastCollisionTime)
                \/ isDifferentPipe(scored.pipes, collidedPipe,
                                   currentState.lastCollisionPipeId),
         allPipesCleared |-> allPipesCleared(currentState, scored.pipes),
         nextSeed |-> spawnResult.nextSeed]

\* the power-ups the bird collected on this Tick, and their effects
TickPowerUps(currentState, newTime, updatedBird, scored, updatedPowerUps, collectedPowerUps) ==
    TickOutcome(currentState, newTime, updatedBird, scored, collectedPowerUps,
                SelectSeq(
                    [i \in 1..Len(updatedPowerUps) |->
                        IF \E j \in 1..Len(collectedPowerUps) :
                               collectedPowerUps[j].id = updatedPowerUps[i].id
                          THEN [updatedPowerUps[i] EXCEPT !.collected = TRUE]
                          ELSE updatedPowerUps[i]],
                    LAMBDA p: ~p.collected),
                \E i \in 1..Len(collectedPowerUps) : collectedPowerUps[i].type = "shrink",
                \E i \in 1..Len(collectedPowerUps) : collectedPowerUps[i].type = "slowDown",
                FindCollidedPipe(updatedBird, scored.pipes),
                shouldSpawnPowerUp(currentState, currentState.rngSeed))

\* the score, and the power-ups the moved bird touches
TickScore(currentState, newTime, updatedBird, cleanedPipes, updatedPowerUps) ==
    TickPowerUps(currentState, newTime, updatedBird,
                 updateScore(updatedBird, cleanedPipes, currentState.score),
                 updatedPowerUps,
                 SelectSeq(updatedPowerUps,
                           LAMBDA p: ~p.collected /\ checkPowerUpCollision(updatedBird, p)))

\* the bird, the pipes and the power-ups moved by one Tick
TickPhysics(currentState, newTime) ==
    TickScore(currentState, newTime,
              [updateBirdPosition(currentState.bird)
                  EXCEPT !.radius = getCurrentBirdRadius(currentState)],
              removeOffscreenPipes(
                  movePipes(getCurrentSpeedMultiplier(
                                currentState.slowDownActive
                                    /\ newTime < currentState.slowDownEndTime,
                                currentState.slowDownEndTime, newTime),
                            currentState.pipes)),
              updatePowerUps(currentState.powerUps))

\* everything Tick.apply computes on its gameplay path (no guard, no countdown)
TickParts(currentState) == TickPhysics(currentState, currentState.time + TICK_RATE_MS)

TickBaseState(currentState, t) ==
    [currentState EXCEPT
        !.bird = t.updatedBird,
        !.pipes = t.scoredPipes,
        !.powerUps = t.workingPowerUps,
        !.score = t.newScore,
        !.time = t.newTime,
        !.gameTime = t.newGameTime,
        !.currentRun = Append(currentState.currentRun, t.updatedBird.pos),
        !.gameEnd = t.allPipesCleared,
        !.gameWon = t.allPipesCleared,
        !.shrinkActive = t.newShrinkActive,
        !.shrinkEndTime = t.newShrinkEndTime,
        !.slowDownActive = t.newSlowDownActive,
        !.slowDownEndTime = t.newSlowDownEndTime,
        !.slowDownMultiplier = t.finalSpeedMultiplier,
        !.powerUpsSpawned = t.newPowerUpsSpawned,
        !.powerUpsCollected = t.newPowerUpsCollected,
        !.rngSeed = t.nextSeed]

\* variant: the victory flag of baseState survives the loss of the last life
TickCollisionState_keepsWon(baseState, t, bounceComputation, newLives) ==
    [baseState EXCEPT
        !.bird = bounceBird(baseState.bird, bounceComputation.bounceVelocity),
        !.lives = newLives,
        !.gameEnd = baseState.gameEnd \/ newLives <= 0,
        !.rngSeed = bounceComputation.nextSeed,
        !.lastCollisionTime =
            IF t.hasDamageCollision THEN t.newTime ELSE baseState.lastCollisionTime,
        !.lastCollisionPipeId =
            IF t.hasDamageCollision THEN t.collidedPipeId
            ELSE baseState.lastCollisionPipeId]

\* variant: losing the last life does not end the game
TickCollisionState_playsOn(baseState, t, bounceComputation, newLives) ==
    [baseState EXCEPT
        !.bird = bounceBird(baseState.bird, bounceComputation.bounceVelocity),
        !.lives = newLives,
        !.gameWon = baseState.gameWon /\ newLives > 0,
        !.rngSeed = bounceComputation.nextSeed,
        !.lastCollisionTime =
            IF t.hasDamageCollision THEN t.newTime ELSE baseState.lastCollisionTime,
        !.lastCollisionPipeId =
            IF t.hasDamageCollision THEN t.collidedPipeId
            ELSE baseState.lastCollisionPipeId]

\* variant: every bounce is recorded as a collision, also one inside the cooldown
TickCollisionState_recordsEveryBounce(baseState, t, bounceComputation, newLives) ==
    [baseState EXCEPT
        !.bird = bounceBird(baseState.bird, bounceComputation.bounceVelocity),
        !.lives = newLives,
        !.gameEnd = baseState.gameEnd \/ newLives <= 0,
        !.gameWon = baseState.gameWon /\ newLives > 0,
        !.rngSeed = bounceComputation.nextSeed,
        !.lastCollisionTime = t.newTime,
        !.lastCollisionPipeId = t.collidedPipeId]

\* the state Tick.apply returns after a physical collision
TickCollisionState(baseState, t, bounceComputation, newLives) ==
    [baseState EXCEPT
        !.bird = bounceBird(baseState.bird, bounceComputation.bounceVelocity),
        !.lives = newLives,
        !.gameEnd = baseState.gameEnd \/ newLives <= 0,
        !.gameWon = baseState.gameWon /\ newLives > 0,
        !.rngSeed = bounceComputation.nextSeed,
        !.lastCollisionTime =
            IF t.hasDamageCollision THEN t.newTime ELSE baseState.lastCollisionTime,
        !.lastCollisionPipeId =
            IF t.hasDamageCollision THEN t.collidedPipeId
            ELSE baseState.lastCollisionPipeId]

\* the collision response: bounce, and a life less on a damage collision
TickCollisionResponse(baseState, t) ==
    IF t.hasPhysicalCollision
      THEN TickCollisionState(
               baseState, t,
               calculateBounce(t.updatedBird, t.scoredPipes, t.boundaryCollision,
                               baseState.rngSeed),
               IF t.hasDamageCollision THEN baseState.lives - 1 ELSE baseState.lives)
      ELSE baseState

\* the gameplay path from the values computed to the state returned
TickResult(currentState, t) == TickCollisionResponse(TickBaseState(currentState, t), t)

\* variant: a paused game keeps ticking
TickGuard_ignoresPause(currentState) ==
    currentState.gameEnd \/ ~currentState.gameStarted

TickGuard(currentState) ==
    currentState.gameEnd \/ ~currentState.gameStarted \/ currentState.isPaused

\* variant: a countdown Tick clears the effects whose end time it reaches
TickApply_countdownExpiresEffects(currentState) ==
    IF TickGuard(currentState) THEN currentState
    ELSE IF currentState.countdown > 0
      THEN [currentState EXCEPT
               !.time = currentState.time + TICK_RATE_MS,
               !.countdown = newCountdown(currentState.time + TICK_RATE_MS,
                                          currentState.countdownTime),
               !.shrinkActive =
                   @ /\ currentState.time + TICK_RATE_MS < currentState.shrinkEndTime,
               !.slowDownActive =
                   @ /\ currentState.time + TICK_RATE_MS < currentState.slowDownEndTime]
    ELSE TickResult(currentState, TickParts(currentState))

\* variant: a countdown Tick advances the game clock as well
TickApply_countdownOnGameClock(currentState) ==
    IF TickGuard(currentState) THEN currentState
    ELSE IF currentState.countdown > 0
      THEN [currentState EXCEPT
               !.time = currentState.time + TICK_RATE_MS,
               !.gameTime = currentState.gameTime + TICK_RATE_MS,
               !.countdown = newCountdown(currentState.time + TICK_RATE_MS,
                                          currentState.countdownTime)]
    ELSE TickResult(currentState, TickParts(currentState))

TickApply(currentState) ==
    IF TickGuard(currentState) THEN currentState
    ELSE IF currentState.countdown > 0
      THEN [currentState EXCEPT
               !.time = currentState.time + TICK_RATE_MS,
               !.countdown = newCountdown(currentState.time + TICK_RATE_MS,
                                          currentState.countdownTime)]
    ELSE TickResult(currentState, TickParts(currentState))

\* ---------------------------------------------------------------- other actions
\* variant: the run is recorded even when it has no position
RestartApply_alwaysRecords(currentState) ==
    [initialState EXCEPT
        !.pipeSpawnQueue = currentState.originalPipeSpawnQueue,
        !.originalPipeSpawnQueue = currentState.originalPipeSpawnQueue,
        !.gameHistory = Append(currentState.gameHistory,
                               [birdPositions |-> currentState.currentRun,
                                timestamp |-> currentState.time]),
        !.gameCount = currentState.gameCount + 1]

\* variant: the restart keeps the seed the last session ended with
RestartApply_keepsSeed(currentState) ==
    [initialState EXCEPT
        !.pipeSpawnQueue = currentState.originalPipeSpawnQueue,
        !.originalPipeSpawnQueue = currentState.originalPipeSpawnQueue,
        !.gameHistory = IF Len(currentState.currentRun) > 0
                          THEN Append(currentState.gameHistory,
                                      [birdPositions |-> currentState.currentRun,
                                       timestamp |-> currentState.time])
                          ELSE currentState.gameHistory,
        !.gameCount = currentState.gameCount + 1,
        !.rngSeed = currentState.rngSeed]

RestartApply(currentState) ==
    LET newGameHistory ==
            IF Len(currentState.currentRun) > 0
              THEN Append(currentState.gameHistory,
                          [birdPositions |-> currentState.currentRun,
                           timestamp |-> currentState.time])
              ELSE currentState.gameHistory
    IN  [initialState EXCEPT
            !.pipeSpawnQueue = currentState.originalPipeSpawnQueue,
            !.originalPipeSpawnQueue = currentState.originalPipeSpawnQueue,
            !.gameHistory = newGameHistory,
            !.gameCount = currentState.gameCount + 1]

\* variant: the flap that restarts also starts the new run
FlapApply_restartFlaps(currentState) ==
    IF currentState.gameEnd
      THEN [RestartApply(currentState) EXCEPT !.bird = flapBird(@), !.gameStarted = TRUE]
    ELSE IF currentState.isPaused THEN currentState
    ELSE [currentState EXCEPT !.bird = flapBird(currentState.bird),
                              !.gameStarted = TRUE,
                              !.gameTime = IF currentState.gameStarted THEN @ ELSE 0]

FlapApply(currentState) ==
    IF currentState.gameEnd THEN RestartApply(currentState)
    ELSE IF currentState.isPaused THEN currentState
    ELSE IF ~currentState.gameStarted
      THEN [currentState EXCEPT
               !.bird = flapBird(currentState.bird),
               !.gameStarted = TRUE,
               !.gameTime = 0]
    ELSE [currentState EXCEPT !.bird = flapBird(currentState.bird)]

\* variant: pausing leaves a running countdown as it is
PauseApply_keepsCountdown(currentState) ==
    IF ~currentState.gameStarted \/ currentState.gameEnd THEN currentState
    ELSE IF currentState.isPaused
      THEN [currentState EXCEPT
               !.isPaused = FALSE,
               !.countdown = 3,
               !.countdownTime = currentState.time]
    ELSE [currentState EXCEPT !.isPaused = TRUE]

\* variant: Pause also toggles before the first flap and after the end
PauseApply_anytime(currentState) ==
    IF currentState.isPaused
      THEN [currentState EXCEPT
               !.isPaused = FALSE,
               !.countdown = 3,
               !.countdownTime = currentState.time]
    ELSE [currentState EXCEPT
             !.isPaused = TRUE,
             !.countdown = 0,
             !.countdownTime = 0]

PauseApply(currentState) ==
    IF ~currentState.gameStarted \/ currentState.gameEnd THEN currentState
    ELSE IF currentState.isPaused
      THEN [currentState EXCEPT
               !.isPaused = FALSE,
               !.countdown = 3,
               !.countdownTime = currentState.time]
    ELSE [currentState EXCEPT
             !.isPaused = TRUE,
             !.countdown = 0,
             !.countdownTime = 0]

SpawnPipeApply(pipeData, pipeId, currentState) ==
    LET newPipe == createPipe(pipeId, Px(CANVAS_WIDTH), pipeData.gapY, pipeData.gapHeight)
    IN  [currentState EXCEPT
            !.pipes = Append(currentState.pipes, newPipe),
            !.pipeSpawnIndex = currentState.pipeSpawnIndex + 1]

\* action.apply(state) for the four kinds of action of the merged input
reduceState(s, action) ==
    CASE action = "Tick" -> TickApply(s)
      [] action = "Flap" -> FlapApply(s)
      [] action = "Pause" -> PauseApply(s)
      [] action = "Restart" -> RestartApply(s)

\* ---------------------------------------------------------------- observable.ts
\* variant: a run shorter than the frame shows its last position
calculateGhostPositions_holdsLast(historicalRecords, animationFrame, gameState) ==
    IF ~gameState.gameStarted \/ Len(historicalRecords) = 0 THEN <<>>
    ELSE LET has == SelectSeq(historicalRecords, LAMBDA rec: Len(rec.birdPositions) > 0)
         IN  [i \in 1..Len(has) |->
                 has[i].birdPositions[Min2(animationFrame + 1, Len(has[i].birdPositions))]]

calculateGhostPositions(historicalRecords, animationFrame, gameState) ==
    IF ~gameState.gameStarted \/ Len(historicalRecords) = 0 THEN <<>>
    ELSE LET has == SelectSeq(historicalRecords,
                              LAMBDA rec: animationFrame < Len(rec.birdPositions))
         IN  [i \in 1..Len(has) |-> has[i].birdPositions[animationFrame + 1]]

\* Math.floor(gameTime / TICK_RATE_MS)
ghostAnimationFrame(stateSnapshot) == stateSnapshot.gameTime \div TICK_RATE_MS

\* the entries of the queue from pipeSpawnIndex on, up to the first not ready
RECURSIVE ReadyPrefix(_, _, _)
ReadyPrefix(queue, from, gameTime) ==
    IF from > Len(queue) \/ gameTime < queue[from].spawnTime THEN <<>>
    ELSE <<queue[from]>> \o ReadyPrefix(queue, from + 1, gameTime)

readyPipesForSpawn(stateSnapshot) ==
    ReadyPrefix(stateSnapshot.pipeSpawnQueue, stateSnapshot.pipeSpawnIndex + 1,
                stateSnapshot.gameTime)

\* n << 20 on 32-bit integers
ShiftLeft20(n) ==
    LET g == n % 2^12
    IN  IF g < 2^11 THEN g * 2^20 ELSE (g - 2^12) * 2^20

uniquePipeId(latestGameState, indexOffset) ==
    ShiftLeft20(latestGameState.gameCount) + (latestGameState.pipeSpawnIndex + indexOffset)

VARIABLES
    state,       \* the accumulator of scan(reduceState, ...)
    pipeGen,     \* distinctUntilChanged of pipeGenerationStream$: first, previous key
    ghosts,      \* gameHistoryStream$, ghostAnimationFrame$, combineLatest, latest ghosts
    downstream,  \* what the subscriber of the returned stream has received: the
                 \* states of the last event, their fold positions, the latest
    spawned,     \* per schedule entry: SpawnPipe actions folded in this session
    hits,        \* the life losses of this session: time and struck pipe
    lastAction,  \* the kind of the event handled last
    sharing,     \* shareReplay of coreGameState$: subscriptions held, buffer filled;
                 \* the subscriber of the returned stream
    twin,        \* a first session folding the same actions as a later one
    rng,         \* a call of randomBetween: arguments and result
    horizon      \* how far the sessions are followed and when keys are pressed

vars == <<state, pipeGen, ghosts, downstream, spawned, hits, lastAction, sharing,
          twin, rng, horizon>>

\* no call of randomBetween is followed
NoDraw == [currentSeed |-> 0, minValue |-> 0, maxValue |-> 0, value |-> 0, seed |-> 0, draws |-> 0]

\* the streams while one event of the merged source is handled; folded counts
\* the states the scan has produced for this event, log holds the SpawnPipe
\* actions the feedback has sent into the scan
Ctx(st, pg, gh, ds, sp, ext) ==
    [fold |-> st, folded |-> 1, gen |-> pg, ghosts |-> gh, down |-> ds, spawned |-> sp,
     external |-> ext, log |-> <<>>]

\* distinctUntilChanged on (gameTime, pipeSpawnIndex)
GenPasses(gen, s) ==
    \/ gen.first
    \/ ~(gen.gameTime = s.gameTime /\ gen.pipeSpawnIndex = s.pipeSpawnIndex)

\* one source of combineLatest has a new value: recompute the ghosts if all have one
Combine(gh) ==
    IF gh.hasHistory /\ gh.hasFrame /\ gh.hasState
      THEN [gh EXCEPT !.latest = calculateGhostPositions(gh.history, gh.frame, gh.gameState)]
      ELSE gh

\* gameHistoryStream$: map, distinctUntilChanged
OnHistory(gh, s) ==
    IF ~gh.hasHistory \/ gh.history # s.gameHistory
      THEN Combine([gh EXCEPT !.hasHistory = TRUE, !.history = s.gameHistory])
      ELSE gh

\* ghostAnimationFrame$: map, distinctUntilChanged
OnFrame(gh, s) ==
    IF ~gh.hasFrame \/ gh.frame # ghostAnimationFrame(s)
      THEN Combine([gh EXCEPT !.hasFrame = TRUE, !.frame = ghostAnimationFrame(s)])
      ELSE gh

\* variant: a new core state is stored without recomputing the ghosts
OnCoreState_noRecompute(gh, s) == [gh EXCEPT !.hasState = TRUE, !.gameState = s]

OnCoreState(gh, s) == Combine([gh EXCEPT !.hasState = TRUE, !.gameState = s])

\* the returned stream: withLatestFrom(ghostPositionStream$), map
Deliver(ds, gh, s, n) ==
    [received |-> TRUE,
     last |-> [s EXCEPT !.ghostBirds = gh.latest],
     order |-> Append(ds.order, n),
     states |-> Append(ds.states, [s EXCEPT !.ghostBirds = gh.latest])]

\* ReplaySubject.next(s): the observers of coreGameState$ in subscription order.
\* The spawn feedback is the second observer, and its SpawnPipe actions are
\* folded and emitted inside its own notification, before the later observers
\* have seen s.  n is the position of s among the states folded for this event.
\* The later observers are the subscriptions of the returned stream, present
\* while it has a subscriber.
RECURSIVE Emit(_, _, _)
RECURSIVE SpawnLoop(_, _, _, _)
Emit(ctx, s, n) ==
    LET pass == GenPasses(ctx.gen, s)
        c1 == IF pass
                THEN [ctx EXCEPT !.gen = [first |-> FALSE, gameTime |-> s.gameTime,
                                          pipeSpawnIndex |-> s.pipeSpawnIndex]]
                ELSE ctx
        emit == IF pass THEN readyPipesForSpawn(s) ELSE <<>>
        c2 == IF Len(emit) > 0 THEN SpawnLoop(c1, emit, 0, s) ELSE c1
        gh == IF ctx.external
                THEN OnCoreState(OnFrame(OnHistory(c2.ghosts, s), s), s)
                ELSE c2.ghosts
    IN  [c2 EXCEPT !.ghosts = gh,
                   !.down = IF ctx.external THEN Deliver(c2.down, gh, s, n) ELSE c2.down]

\* mergeMap over from(emit): one SpawnPipe per ready entry, ids from latestGameState
SpawnLoop(ctx, emit, indexOffset, latestGameState) ==
    IF indexOffset >= Len(emit) THEN ctx
    ELSE LET entry == latestGameState.pipeSpawnIndex + indexOffset + 1
             newFold == SpawnPipeApply(emit[indexOffset + 1],
                                       uniquePipeId(latestGameState, indexOffset),
                                       ctx.fold)
             c == [ctx EXCEPT !.fold = newFold,
                              !.folded = @ + 1,
                              !.spawned[entry] = @ + 1,
                              !.log = Append(@, [pipeData |-> emit[indexOffset + 1],
                                                 pipeId |-> uniquePipeId(latestGameState,
                                                                         indexOffset)])]
         IN  SpawnLoop(Emit(c, newFold, c.folded), emit, indexOffset + 1, latestGameState)

\* one event of unifiedActionStream$: scan folds it, shareReplay emits the state
Handle(newState, sp) ==
    Emit(Ctx(newState, pipeGen, ghosts, [downstream EXCEPT !.order = <<>>, !.states = <<>>], sp,
             sharing.consumer = "subscribed"),
         newState, 1)

Streams(c) ==
    /\ state' = c.fold
    /\ pipeGen' = c.gen
    /\ ghosts' = c.ghosts
    /\ downstream' = c.down
    /\ spawned' = c.spawned
    /\ sharing' = [sharing EXCEPT !.buffered = TRUE]

Commit(c) == Streams(c) /\ UNCHANGED <<twin, rng, horizon>>

\* ---------------------------------------------------------------- bounds
\* ticks of `time` a session may run
MaxTicks == 250
\* a key is pressed only when gameTime is a multiple of KeyPeriod ticks
KeyPeriod == 27
\* restarts
MaxRestarts == 1
\* ticks of `time` a session after a restart may run
ReplayTicks == 40
\* ticks of `time` a session may run when the consumer comes and goes
LateTicks == 4

PD(gapY, gapHeight, spawnTime) ==
    [gapY |-> gapY, gapHeight |-> gapHeight, spawnTime |-> spawnTime]

\* normalized value n / 100
Pct(n) == (n * Unit) \div 100

Schedules ==
    { <<>>,
      <<PD(Pct(99), Pct(12), 208)>>,
      <<PD(Pct(45), Pct(40), 16), PD(Pct(50), Pct(40), 16), PD(Pct(50), Pct(40), 32)>> }

\* a schedule whose only pipe is far away: the session is not won before
LongSchedule == <<PD(Pct(50), Pct(40), 60 * 1000)>>

NoSpawns(queue) == [i \in 1..Len(queue) |-> 0]

\* subscriptions to coreGameState$ held by pipeGenerationStream$.subscribe:
\* withLatestFrom(coreGameState$) and the source of the pipe
FeedbackSubscriptions == 2
\* subscriptions to coreGameState$ held for a subscriber of the returned stream:
\* gameHistoryStream$, ghostAnimationFrame$, combineLatest, the source
ConsumerSubscriptions == 4

\* shareReplay refCount: the source is subscribed while a subscription is held
Connected == sharing.refCount > 0

KeySlot == state.gameEnd \/ state.time % (horizon.keyPeriod * TICK_RATE_MS) = 0

\* how far a behaviour is followed: ticks of `time` of the first session, of a
\* later session, and the ticks between two key slots
Horizon(first, later, keyPeriod) == [first |-> first, later |-> later, keyPeriod |-> keyPeriod]

GameHorizon == Horizon(MaxTicks, ReplayTicks, KeyPeriod)

\* the first session runs MaxTicks ticks, a later one ReplayTicks; sessions
\* whose consumer subscribes late or leaves run LateTicks
TickCap ==
    (IF sharing.late THEN LateTicks
     ELSE IF state.gameCount = 0 THEN horizon.first ELSE horizon.later) * TICK_RATE_MS

\* ---------------------------------------------------------------- specification
\* ghostPositionStream$ before its inputs have emitted: startWith([])
NoGhosts ==
    [hasHistory |-> FALSE, history |-> <<>>,
     hasFrame |-> FALSE, frame |-> 0,
     hasState |-> FALSE, gameState |-> initialState,
     latest |-> <<>>]

\* state$(csvData) has been called: the spawn feedback is subscribed, which
\* connects coreGameState$ (timer and key listeners running)
InitFold(queue) ==
    /\ state = [initialState EXCEPT !.pipeSpawnQueue = queue,
                                    !.originalPipeSpawnQueue = queue]
    /\ pipeGen = [first |-> TRUE, gameTime |-> 0, pipeSpawnIndex |-> 0]
    /\ downstream = [received |-> FALSE, last |-> initialState, order |-> <<>>, states |-> <<>>]
    /\ spawned = NoSpawns(queue)
    /\ hits = <<>>
    /\ lastAction = "none"

InitStreams(queue) == InitFold(queue) /\ ghosts = NoGhosts

\* the game as main.ts runs it: the returned stream is subscribed at once and
\* for good
Init ==
    \E queue \in Schedules :
        /\ InitStreams(queue)
        /\ sharing = [consumer |-> "subscribed",
                      refCount |-> FeedbackSubscriptions + ConsumerSubscriptions,
                      buffered |-> FALSE,
                      late |-> FALSE]
        /\ twin = initialState
        /\ rng = NoDraw
        /\ horizon = GameHorizon

\* a Tick that took a life is recorded in hits with its time and the pipe it
\* stored as lastCollisionPipeId (-1: no pipe struck)
TickHits(c) ==
    IF c.fold.lives < state.lives
      THEN Append(hits, [time |-> c.fold.lastCollisionTime,
                         pipe |-> c.fold.lastCollisionPipeId,
                         struckPipe |-> c.fold.lastCollisionPipeId # -1])
      ELSE hits

TickHandled(c) ==
    /\ Commit(c)
    /\ hits' = TickHits(c)
    /\ lastAction' = "Tick"

\* interval(TICK_RATE_MS): a Tick, and the spawn feedback it triggers
TimerTick ==
    /\ Connected
    /\ TickGuard(state) \/ state.time < TickCap
    /\ \E newState \in {TickApply(state)} : TickHandled(Handle(newState, spawned))

\* keydown Space
KeyFlap ==
    /\ Connected
    /\ KeySlot
    /\ state.gameEnd => state.gameCount < MaxRestarts
    /\ Commit(Handle(FlapApply(state),
                     IF state.gameEnd THEN NoSpawns(state.originalPipeSpawnQueue)
                     ELSE spawned))
    /\ hits' = IF state.gameEnd THEN <<>> ELSE hits
    /\ lastAction' = "Flap"

\* keydown KeyP
KeyPause ==
    /\ Connected
    /\ KeySlot
    /\ Commit(Handle(PauseApply(state), spawned))
    /\ hits' = hits
    /\ lastAction' = "Pause"

\* keydown KeyR
KeyRestart ==
    /\ Connected
    /\ KeySlot
    /\ state.gameCount < MaxRestarts
    /\ Commit(Handle(RestartApply(state), NoSpawns(state.originalPipeSpawnQueue)))
    /\ hits' = <<>>
    /\ lastAction' = "Restart"

Next == TimerTick \/ KeyFlap \/ KeyPause \/ KeyRestart

Spec == Init /\ [][Next]_vars

\* ------------------------------------------------- subscribing and unsubscribing
\* state$(csvData) has been called and its result not subscribed yet
LifecycleInit ==
    \E queue \in Schedules :
        /\ InitStreams(queue)
        /\ sharing = [consumer |-> "none",
                      refCount |-> FeedbackSubscriptions,
                      buffered |-> FALSE,
                      late |-> TRUE]
        /\ twin = initialState
        /\ rng = NoDraw
        /\ horizon = GameHorizon

\* variant: a new subscriber has only the startWith([]) value
ReplayGhosts_startWithOnly(s) == NoGhosts

\* the inputs of combineLatest subscribe in order and each gets the buffered
\* state replayed
ReplayGhosts(s) == OnCoreState(OnFrame(OnHistory(NoGhosts, s), s), s)

\* subscribe to the returned stream: withLatestFrom subscribes
\* ghostPositionStream$ (startWith([]), then its three inputs), then the source
\* coreGameState$, whose ReplaySubject replays the buffered state; 0 in order
\* marks a replayed state
Subscribe ==
    /\ sharing.consumer # "subscribed"
    /\ sharing' = [sharing EXCEPT !.consumer = "subscribed",
                                  !.refCount = @ + ConsumerSubscriptions]
    /\ ghosts' = IF sharing.buffered THEN ReplayGhosts(state) ELSE NoGhosts
    /\ downstream' = IF sharing.buffered
                       THEN Deliver([downstream EXCEPT !.order = <<>>, !.states = <<>>],
                                    ReplayGhosts(state), state, 0)
                       ELSE [downstream EXCEPT !.order = <<>>, !.states = <<>>]
    /\ lastAction' = "Subscribe"
    /\ UNCHANGED <<state, pipeGen, spawned, hits, twin, rng, horizon>>

\* unsubscribe from the returned stream: its four subscriptions to
\* coreGameState$ are released, the ghost streams are torn down; the spawn
\* feedback subscription stays
Unsubscribe ==
    /\ sharing.consumer = "subscribed"
    /\ sharing' = [sharing EXCEPT !.consumer = "gone",
                                  !.refCount = @ - ConsumerSubscriptions]
    /\ ghosts' = NoGhosts
    /\ downstream' = [downstream EXCEPT !.order = <<>>, !.states = <<>>]
    /\ lastAction' = "Unsubscribe"
    /\ UNCHANGED <<state, pipeGen, spawned, hits, twin, rng, horizon>>

LifecycleNext == Next \/ Subscribe \/ Unsubscribe

LifecycleSpec == LifecycleInit /\ [][LifecycleNext]_vars

\* ------------------------------------------------- the fold alone, played forward
\* ticks after which a flap brings the bird back to the height of the last flap
FlapPeriod == (2 * (0 - Px(FLAP_STRENGTH))) \div GRAVITY - 1

\* SpawnPipe for the ready entries emit[k..], ids from latestGameState
RECURSIVE SpawnReady(_, _, _, _)
SpawnReady(s, emit, k, latestGameState) ==
    IF k > Len(emit) THEN s
    ELSE SpawnReady(SpawnPipeApply(emit[k], uniquePipeId(latestGameState, k - 1), s),
                    emit, k + 1, latestGameState)

\* the fold after the spawn feedback for s, for schedules in which no two
\* entries are ready in the same folded state
Spawned(s) == SpawnReady(s, readyPipesForSpawn(s), 1, s)

\* one Tick, after the Space that starts the game or the Space pressed every
\* FlapPeriod ticks, at the ticks that are phase past a multiple of FlapPeriod
PlayStep(s, phase) ==
    Spawned(TickApply(IF ~s.gameStarted \/ (s.time \div TICK_RATE_MS) % FlapPeriod = phase
                        THEN FlapApply(s) ELSE s))

\* n Ticks folded from s
RECURSIVE Play(_, _, _)
Play(s, n, phase) ==
    IF n = 0 THEN s
    ELSE IF n = 1 THEN PlayStep(s, phase)
    ELSE LET half == Play(s, n \div 2, phase)
         IN  IF half.time >= 0 THEN Play(half, n - n \div 2, phase) ELSE half

\* the streams when s is the state folded last, a Tick of a first session that
\* has spawned no pipe and lost no life
StreamsAfter(s) ==
    /\ pipeGen = [first |-> FALSE, gameTime |-> s.gameTime, pipeSpawnIndex |-> s.pipeSpawnIndex]
    /\ ghosts = ReplayGhosts(s)
    /\ downstream = Deliver([received |-> TRUE, last |-> s, order |-> <<>>, states |-> <<>>],
                            ReplayGhosts(s), s, 1)
    /\ spawned = NoSpawns(s.pipeSpawnQueue)
    /\ hits = <<>>
    /\ lastAction = "Tick"
    /\ sharing = [consumer |-> "subscribed",
                  refCount |-> FeedbackSubscriptions + ConsumerSubscriptions,
                  buffered |-> TRUE,
                  late |-> FALSE]

\* ------------------------------------------------- calculateGhostPositions alone
\* past runs in the history
MaxHistory == 2
\* recorded positions of a past run
MaxPositions == 2
\* largest animation frame
MaxFrame == 3

GhostPoints == { [x |-> INITIAL_X, y |-> INITIAL_Y], [x |-> INITIAL_X, y |-> Px(100)] }

\* the sequences over S of length at most n
RECURSIVE SeqsUpTo(_, _)
SeqsUpTo(S, n) ==
    IF n = 0 THEN { <<>> }
    ELSE LET shorter == SeqsUpTo(S, n - 1)
         IN  shorter \cup { Append(q, e) : q \in shorter, e \in S }

GhostRuns == { [birdPositions |-> ps, timestamp |-> 0] : ps \in SeqsUpTo(GhostPoints, MaxPositions) }

\* combineLatest holding a history, a frame and a state, nothing computed yet
GhostInit ==
    \E h \in SeqsUpTo(GhostRuns, MaxHistory), f \in 0..MaxFrame, started \in BOOLEAN :
        /\ InitFold(<<>>)
        /\ ghosts = [hasHistory |-> TRUE, history |-> h,
                     hasFrame |-> TRUE, frame |-> f,
                     hasState |-> TRUE,
                     gameState |-> [initialState EXCEPT !.gameStarted = started],
                     latest |-> <<>>]
        /\ sharing = [consumer |-> "subscribed",
                      refCount |-> FeedbackSubscriptions + ConsumerSubscriptions,
                      buffered |-> FALSE,
                      late |-> FALSE]
        /\ twin = initialState
        /\ rng = NoDraw
        /\ horizon = GameHorizon

\* the map of ghostPositionStream$ applies calculateGhostPositions
GhostCompute ==
    /\ lastAction = "none"
    /\ ghosts' = Combine(ghosts)
    /\ lastAction' = "Ghosts"
    /\ UNCHANGED <<state, pipeGen, downstream, spawned, hits, sharing, twin, rng, horizon>>

GhostSpec == GhostInit /\ [][GhostCompute]_vars

\* the ghosts of a history at frame f, entry by entry
RECURSIVE ExpectedGhosts(_, _)
ExpectedGhosts(h, f) ==
    IF h = <<>> THEN <<>>
    ELSE (IF Len(Head(h).birdPositions) > f THEN <<Head(h).birdPositions[f + 1]>> ELSE <<>>)
            \o ExpectedGhosts(Tail(h), f)

\* ---------------------------------------------------------------- claims
\* a step that folds a Tick on its gameplay path
GameplayTick ==
    /\ lastAction' = "Tick"
    /\ state'.time = state.time + TICK_RATE_MS
    /\ state'.gameTime = state.gameTime + TICK_RATE_MS

Ready(i) == state.pipeSpawnQueue[i].spawnTime <= state.gameTime

\* C1: after every event each schedule entry with spawnTime <= gameTime has had
\* exactly one SpawnPipe folded, no entry has had two, and pipeSpawnIndex is the
\* number of entries spawned and at most the length of the schedule.
C1_EachReadyEntrySpawnedOnce ==
    downstream.received =>
        /\ \A i \in 1..Len(state.pipeSpawnQueue) :
              /\ spawned[i] <= 1
              /\ Ready(i) => spawned[i] = 1
        /\ state.pipeSpawnIndex =
              Cardinality({i \in 1..Len(state.pipeSpawnQueue) : spawned[i] >= 1})
        /\ state.pipeSpawnIndex <= Len(state.pipeSpawnQueue)

\* C2: two life losses of one session for a collision with the same pipe are
\* at least COLLISION_COOLDOWN_MS apart.
C2_SamePipeCooldown ==
    \A i, j \in 1..Len(hits) :
        (i < j /\ hits[i].struckPipe /\ hits[j].struckPipe /\ hits[i].pipe = hits[j].pipe)
            => hits[j].time - hits[i].time >= COLLISION_COOLDOWN_MS

\* C3: a life loss follows the previous life loss of the session by at least
\* COLLISION_COOLDOWN_MS unless it struck a pipe other than the one struck at
\* the previous life loss.
C3_DamageGate ==
    \A j \in 2..Len(hits) :
        \/ hits[j].time - hits[j - 1].time >= COLLISION_COOLDOWN_MS
        \/ hits[j].struckPipe /\ hits[j].pipe # hits[j - 1].pipe

\* C4: the consumer has received one state per folded action, in fold order,
\* and the last state it received is the fold's current state.
C4_DeliveredInFoldOrder ==
    downstream.received =>
        /\ downstream.order = [i \in 1..Len(downstream.order) |-> i]
        /\ [downstream.last EXCEPT !.ghostBirds = state.ghostBirds] = state

\* the run recorded first in the history of the state the consumer saw last
PastRun == downstream.last.gameHistory[1].birdPositions

\* C5: the ghost of a past run, in a delivered state with gameTime
\* k * TICK_RATE_MS (k >= 1, the run lasted that long), is the position the
\* bird of that run had in its state with gameTime k * TICK_RATE_MS.
C5_GhostFrameAligned ==
    LET k == downstream.last.gameTime \div TICK_RATE_MS
    IN  (/\ downstream.received
         /\ downstream.last.gameStarted
         /\ Len(downstream.last.gameHistory) = 1
         /\ k >= 1
         /\ k <= Len(PastRun))
            => downstream.last.ghostBirds = <<PastRun[k]>>

\* C6: a gameplay Tick that takes the last life yields lives = 0, gameEnd and
\* not gameWon, also when the last pipe leaves on that Tick; a gameplay Tick
\* that leaves lives above 0 does not end the game as lost.
C6_LastLifeEndsGameAsLost ==
    [][GameplayTick =>
          /\ (state.lives = 1 /\ state'.lives < state.lives)
                => (state'.lives = 0 /\ state'.gameEnd /\ ~state'.gameWon)
          /\ state'.lives > 0 => ~(state'.gameEnd /\ ~state'.gameWon)]_vars

\* the last life was lost on the Tick on which the last pipe left the screen
C6_DeathOnVictoryTick ==
    /\ lastAction = "Tick"
    /\ state.lives = 0
    /\ state.gameEnd
    /\ ~state.gameWon
    /\ Len(state.pipeSpawnQueue) > 0
    /\ state.pipeSpawnIndex >= Len(state.pipeSpawnQueue)
    /\ state.pipes = <<>>

\* C7: a gameplay Tick wins exactly when pipeSpawnIndex had reached the length
\* of the schedule, no pipe remains after the Tick and lives stay above 0; and
\* a won state has every schedule entry spawned and no pipe on screen.
C7_WonExactlyWhenAllCleared ==
    [][GameplayTick =>
          /\ (state'.gameEnd /\ state'.gameWon)
                <=> (/\ state.pipeSpawnIndex >= Len(state.pipeSpawnQueue)
                     /\ state'.pipes = <<>>
                     /\ state'.lives > 0)
          /\ state'.gameWon =>
                /\ state'.pipes = <<>>
                /\ \A i \in 1..Len(state'.pipeSpawnQueue) : spawned'[i] >= 1]_vars

\* pipes of state' that were already in state: all but the newly spawned
Survivors == Len(state'.pipes) - (state'.pipeSpawnIndex - state.pipeSpawnIndex)

\* pipes of state that the Tick removed as off-screen
Removed == Len(state.pipes) - Survivors

\* C8: over a Tick the score does not decrease and grows by the number of
\* pipes whose passed flag goes from false to true; the flag is set when
\* bird.pos.x > pipe.x + pipe.width and is never cleared.
C8_ScoreCountsNewlyPassed ==
    [][lastAction' = "Tick" =>
          /\ Survivors \in 0..Len(state.pipes)
          /\ state'.score >= state.score
          /\ state'.score - state.score =
                Cardinality({i \in 1..Survivors :
                                ~state.pipes[Removed + i].passed /\ state'.pipes[i].passed})
          /\ \A i \in 1..Survivors :
                /\ state'.pipes[i].id = state.pipes[Removed + i].id
                /\ state.pipes[Removed + i].passed => state'.pipes[i].passed
                /\ (~state.pipes[Removed + i].passed /\ state'.pipes[i].passed)
                      => state'.bird.pos.x > state'.pipes[i].x + state'.pipes[i].width]_vars

\* a Tick has scored a pipe that is still on screen
C8_PipeScored ==
    /\ lastAction = "Tick"
    /\ state.score > 0
    /\ \E i \in 1..Len(state.pipes) : state.pipes[i].passed

\* a step that folds Restart: KeyR, or Space in a finished game
RestartFolded == lastAction' = "Restart" \/ (lastAction' = "Flap" /\ state.gameEnd)

\* C9: Restart appends {birdPositions: currentRun, timestamp: time} to
\* gameHistory iff currentRun is not empty, adds 1 to gameCount, sets both
\* queues to the previous originalPipeSpawnQueue and every other field to its
\* value in initialState.
C9_RestartResets ==
    [][RestartFolded =>
          /\ state'.gameHistory =
                IF Len(state.currentRun) > 0
                  THEN Append(state.gameHistory,
                              [birdPositions |-> state.currentRun, timestamp |-> state.time])
                  ELSE state.gameHistory
          /\ state'.gameCount = state.gameCount + 1
          /\ state'.pipeSpawnQueue = state.originalPipeSpawnQueue
          /\ state'.originalPipeSpawnQueue = state.originalPipeSpawnQueue
          /\ \A f \in DOMAIN initialState \ {"gameHistory", "gameCount", "pipeSpawnQueue",
                                             "originalPipeSpawnQueue"} :
                state'[f] = initialState[f]]_vars

\* a run with a recorded path has been restarted
C9_RunRecorded ==
    /\ lastAction \in {"Restart", "Flap"}
    /\ state.gameCount = 1
    /\ ~state.gameStarted
    /\ Len(state.gameHistory) = 1
    /\ Len(state.gameHistory[1].birdPositions) > 0
    /\ state.gameHistory[1].timestamp > 0

\* C10: a Tick folded into a state with gameEnd, or not gameStarted, or
\* isPaused leaves every field of the state unchanged, time included.
C10_TickShortCircuit ==
    [][(lastAction' = "Tick" /\ (state.gameEnd \/ ~state.gameStarted \/ state.isPaused))
          => state' = state]_vars

\* a Tick was folded into a paused game that had run for a while
C10_TickWhilePaused ==
    /\ lastAction = "Tick"
    /\ state.isPaused
    /\ state.gameStarted
    /\ state.time > 0

\* C11: Space in a finished game yields exactly the state Restart yields: not
\* started, not ended, the bird at rest.
C11_FlapOnGameEndIsRestart ==
    [][(lastAction' = "Flap" /\ state.gameEnd) =>
          /\ state' = RestartApply(state)
          /\ ~state'.gameStarted
          /\ ~state'.gameEnd
          /\ state'.bird.vel = [x |-> 0, y |-> 0]
          /\ state'.bird = initialState.bird]_vars

\* Space has restarted a finished game: a Flap that starts or flaps leaves
\* gameStarted true
C11_RestartedBySpace ==
    /\ lastAction = "Flap"
    /\ state.gameCount = 1
    /\ ~state.gameStarted
    /\ state.bird.vel.y = 0
    /\ Len(state.gameHistory) = 1

\* C12: Flap in a game that has not ended: nothing changes if paused;
\* otherwise bird.vel.y becomes FLAP_STRENGTH, and a game not yet started
\* becomes started with gameTime 0; nothing else changes.
C12_FlapEffect ==
    [][(lastAction' = "Flap" /\ ~state.gameEnd) =>
          IF state.isPaused THEN state' = state
          ELSE /\ state'.bird.vel.y = Px(FLAP_STRENGTH)
               /\ state'.bird.vel.x = state.bird.vel.x
               /\ state'.bird.pos = state.bird.pos
               /\ state'.bird.radius = state.bird.radius
               /\ state'.gameStarted
               /\ state'.gameTime = (IF state.gameStarted THEN state.gameTime ELSE 0)
               /\ \A f \in DOMAIN state \ {"bird", "gameStarted", "gameTime"} :
                     state'[f] = state[f]]_vars

\* a flap in mid-flight: the bird was falling a Tick before
C12_FlapInFlight ==
    /\ lastAction = "Flap"
    /\ state.gameStarted
    /\ ~state.isPaused
    /\ state.gameTime > 0
    /\ state.bird.vel.y = Px(FLAP_STRENGTH)
    /\ state.bird.pos.y # INITIAL_Y

\* C13: Pause changes nothing in a game not started or ended; otherwise it
\* flips isPaused and changes only the countdown fields: to 0 and 0 when
\* pausing, to 3 and the current time when unpausing.
C13_PauseEffect ==
    [][lastAction' = "Pause" =>
          IF ~state.gameStarted \/ state.gameEnd THEN state' = state
          ELSE /\ state'.isPaused = ~state.isPaused
               /\ state'.countdown = (IF state.isPaused THEN 3 ELSE 0)
               /\ state'.countdownTime = (IF state.isPaused THEN state.time ELSE 0)
               /\ \A f \in DOMAIN state \ {"isPaused", "countdown", "countdownTime"} :
                     state'[f] = state[f]]_vars

\* a game paused after it had run for a while has been unpaused
C13_Unpaused ==
    /\ lastAction = "Pause"
    /\ ~state.isPaused
    /\ state.countdown = 3
    /\ state.countdownTime = state.time
    /\ state.time > 0

\* the countdown after an unpause is running
CountingDown == state.gameStarted /\ ~state.gameEnd /\ ~state.isPaused /\ state.countdown > 0

\* C14: while the countdown after an unpause runs, a Tick or a Flap changes
\* none of bird, pipes, powerUps, score, lives, gameTime, currentRun, rngSeed.
C14_FrozenDuringCountdown ==
    [][(CountingDown /\ lastAction' \in {"Tick", "Flap"}) =>
          \A f \in {"bird", "pipes", "powerUps", "score", "lives", "gameTime",
                    "currentRun", "rngSeed"} : state'[f] = state[f]]_vars

\* C15: a Tick during the countdown changes only time, by TICK_RATE_MS, and
\* countdown, to max(0, 3 - floor((new time - t0) / COUNTDOWN_DURATION_MS));
\* countdown never increases and is 0 exactly from t0 + 3000 on; the Tick
\* after the countdown has reached 0 advances gameTime by TICK_RATE_MS.
C15_CountdownTicks ==
    [][(lastAction' = "Tick" /\ state.gameStarted /\ ~state.gameEnd /\ ~state.isPaused) =>
          IF state.countdown > 0
            THEN /\ state'.time = state.time + TICK_RATE_MS
                 /\ \E k \in 0..3 :
                       /\ state'.countdown = k
                       /\ k > 0 => (3 - k) * COUNTDOWN_DURATION_MS
                                      <= state'.time - state.countdownTime
                       /\ k > 0 => state'.time - state.countdownTime
                                      < (4 - k) * COUNTDOWN_DURATION_MS
                       /\ k = 0 => state'.time - state.countdownTime
                                      >= 3 * COUNTDOWN_DURATION_MS
                 /\ state'.countdown <= state.countdown
                 /\ state'.gameTime = state.gameTime
                 /\ \A f \in DOMAIN state \ {"time", "countdown"} : state'[f] = state[f]
            ELSE state'.gameTime = state.gameTime + TICK_RATE_MS]_vars

\* the countdown of an unpause has run out and the next Tick was the first to
\* advance gameTime
C15_ResumedAfterCountdown ==
    /\ lastAction = "Tick"
    /\ state.gameStarted
    /\ ~state.isPaused
    /\ state.countdown = 0
    /\ state.gameTime = TICK_RATE_MS
    /\ state.time >= state.countdownTime + 3 * COUNTDOWN_DURATION_MS + TICK_RATE_MS
    /\ state.time > state.gameTime

\* C16: in every reachable state the pipes on screen carry pairwise distinct
\* ids.
C16_PipeIdsDistinct ==
    \A i, j \in 1..Len(state.pipes) :
        i # j => state.pipes[i].id # state.pipes[j].id

\* C17: after every event each schedule entry with spawnTime <= gameTime has
\* had its SpawnPipe folded and pipeSpawnIndex is past it, and the pipes folded
\* during the event are at x = CANVAS_WIDTH in the state the next event is
\* applied to.
C17_SpawnFoldedBeforeNextAction ==
    [][/\ \A i \in 1..Len(state'.pipeSpawnQueue) :
             state'.pipeSpawnQueue[i].spawnTime <= state'.gameTime =>
                 /\ spawned'[i] >= 1
                 /\ state'.pipeSpawnIndex >= i
       /\ state'.pipeSpawnIndex > state.pipeSpawnIndex =>
             \A k \in 1..Len(state'.pipes) :
                 k > Survivors => state'.pipes[k].x = Px(CANVAS_WIDTH)]_vars

\* C18: once the subscriber of the returned stream has unsubscribed, no
\* subscription to coreGameState$ is held and no Tick or key action is folded.
C18_ReleasedAfterUnsubscribe ==
    [][/\ sharing'.consumer = "gone" => sharing'.refCount = 0
       /\ sharing.consumer = "gone" =>
             lastAction' \notin {"Tick", "Flap", "Pause", "Restart"}]_vars

\* C19: a subscriber that arrives after an action has been folded receives at
\* once exactly one state, the latest folded state with the ghost list computed
\* for it, and no action is folded in between.
C19_LateSubscriberGetsLatest ==
    [][(lastAction' = "Subscribe" /\ sharing.buffered) =>
          /\ state' = state
          /\ downstream'.received
          /\ Len(downstream'.order) = 1
          /\ downstream'.last =
                [state EXCEPT !.ghostBirds =
                    calculateGhostPositions(state.gameHistory,
                                            state.gameTime \div TICK_RATE_MS,
                                            state)]]_vars

\* a subscriber has arrived in the second run and got a state with a ghost
C19_LateSubscriberSeesGhost ==
    /\ lastAction = "Subscribe"
    /\ sharing.buffered
    /\ state.gameStarted
    /\ Len(state.gameHistory) > 0
    /\ downstream.last.ghostBirds # <<>>
    /\ downstream.last.gameCount = state.gameCount

\* C20: calculateGhostPositions returns, in history order, the position at
\* index f of each entry with more than f positions and nothing for the other
\* entries; it returns the empty list when the game is not started or the
\* history is empty.
C20_GhostsAtFrame ==
    lastAction = "Ghosts" =>
        /\ (~ghosts.gameState.gameStarted \/ ghosts.history = <<>>) => ghosts.latest = <<>>
        /\ ghosts.gameState.gameStarted =>
              /\ ghosts.latest = ExpectedGhosts(ghosts.history, ghosts.frame)
              /\ Len(ghosts.latest) =
                    Cardinality({i \in 1..Len(ghosts.history) :
                                    Len(ghosts.history[i].birdPositions) > ghosts.frame})

\* a started game whose history has a run longer than the frame after a run
\* that is not: one ghost, from the second run
C20_ShortRunSkipped ==
    /\ lastAction = "Ghosts"
    /\ ghosts.gameState.gameStarted
    /\ Len(ghosts.history) = 2
    /\ ghosts.frame = 1
    /\ Len(ghosts.history[1].birdPositions) = 1
    /\ Len(ghosts.history[2].birdPositions) = 2
    /\ ghosts.latest = <<ghosts.history[2].birdPositions[2]>>

InputActions == {"Tick", "Flap", "Pause", "Restart"}

\* a state as the fold holds it: without the ghost list
WithoutGhosts(s) == [s EXCEPT !.ghostBirds = <<>>]

\* C21: every state delivered for an event is a state the fold produced for
\* that event (the first is the input action applied to the previous state,
\* the last is the fold's state, all agree with it outside pipes and
\* pipeSpawnIndex) with only ghostBirds replaced, by calculateGhostPositions of
\* that state's own gameHistory, frame and gameStarted; the fold keeps
\* ghostBirds empty and a ghost list put into the fold state changes no other
\* field of the next state.
C21_GhostsOnlyInPresentation ==
    [][lastAction' \in InputActions =>
          /\ state'.ghostBirds = <<>>
          /\ Len(downstream'.states) = Len(downstream'.order)
          /\ \A k \in 1..Len(downstream'.states) :
                /\ downstream'.states[k].ghostBirds =
                      calculateGhostPositions(downstream'.states[k].gameHistory,
                                              downstream'.states[k].gameTime \div TICK_RATE_MS,
                                              downstream'.states[k])
                /\ downstream'.order[k] = 1 =>
                      WithoutGhosts(downstream'.states[k]) = reduceState(state, lastAction')
                /\ downstream'.order[k] = Len(downstream'.order) =>
                      WithoutGhosts(downstream'.states[k]) = state'
                /\ \A f \in DOMAIN state \ {"pipes", "pipeSpawnIndex", "ghostBirds"} :
                      downstream'.states[k][f] = state'[f]
          /\ WithoutGhosts(reduceState([state EXCEPT !.ghostBirds = <<state.bird.pos>>],
                                       lastAction'))
                = reduceState(state, lastAction')]_vars

\* the Space that starts the second run: the ghost of the first run appears
\* although neither the history nor the frame has changed
C21_GhostAppearsOnStart ==
    /\ lastAction = "Flap"
    /\ state.gameCount = 1
    /\ state.gameStarted
    /\ state.gameTime = 0
    /\ Len(state.gameHistory) = 1
    /\ Len(downstream.states) = 1
    /\ downstream.states[1].ghostBirds = <<state.gameHistory[1].birdPositions[1]>>

\* ------------------------------------------------- randomBetween alone
\* draws made in a row, each from the seed the draw before returned
MaxDraws == 8

\* the seed of initialState, small seeds, the largest seed
RngSeeds == { 0, 1, RNG_c, 8161830, 8161831, INITIAL_SEED, RNG_mMinus1 }

\* the ranges the engine draws from: a bounce velocity, a power-up height in
\* the middle third of the canvas, and the unit range
RngRanges ==
    { [minValue |-> Px(BOUNCE_VELOCITY_MIN), maxValue |-> Px(BOUNCE_VELOCITY_MAX)],
      [minValue |-> (CANVAS_HEIGHT * 33 * Unit) \div 100,
       maxValue |-> (CANVAS_HEIGHT * 67 * Unit) \div 100 - Px(POWERUP_SIZE)],
      [minValue |-> 0, maxValue |-> Unit] }

RngInit ==
    \E sd \in RngSeeds, range \in RngRanges :
        /\ InitStreams(<<>>)
        /\ sharing = [consumer |-> "subscribed",
                      refCount |-> FeedbackSubscriptions + ConsumerSubscriptions,
                      buffered |-> FALSE,
                      late |-> FALSE]
        /\ rng = [currentSeed |-> sd, minValue |-> range.minValue,
                  maxValue |-> range.maxValue, value |-> 0, seed |-> sd, draws |-> 0]
        /\ twin = initialState
        /\ horizon = GameHorizon

\* randomBetween(rng.seed, minValue, maxValue): the seed returned last is threaded
RngDraw ==
    /\ rng.draws < MaxDraws
    /\ rng' = [rng EXCEPT !.currentSeed = rng.seed,
                          !.value = randomBetween(rng.seed, rng.minValue, rng.maxValue).value,
                          !.seed = randomBetween(rng.seed, rng.minValue, rng.maxValue).seed,
                          !.draws = @ + 1]
    /\ lastAction' = "Draw"
    /\ UNCHANGED <<state, pipeGen, ghosts, downstream, spawned, hits, sharing, twin, horizon>>

RngSpec == RngInit /\ [][RngDraw]_vars

\* (RNG.a * seed + RNG.c) mod 2^31 in exact integer arithmetic
LcgStep(seed) == AddWide(MulWide(RNG_a, seed), [hi |-> 0, lo |-> RNG_c]).lo

\* C23: a draw returns the seed (1103515245 * seed + 12345) mod 2^31 and a
\* value with min <= value < max
C23_LcgStepAndRange ==
    rng.draws > 0 =>
        /\ rng.seed = LcgStep(rng.currentSeed)
        /\ rng.minValue <= rng.value
        /\ rng.value < rng.maxValue

\* ------------------------------------------------- a later session and a first one
\* ticks of `time` a session runs when it is compared with a first session
TwinTicks == 60

\* the state a session starts from
SessionStart(s) ==
    [initialState EXCEPT !.pipeSpawnQueue = s.originalPipeSpawnQueue,
                         !.originalPipeSpawnQueue = s.originalPipeSpawnQueue]

\* the SpawnPipe actions log[k..] folded into the first session t, with the
\* pipe ids a session with gameCount 0 gives them
RECURSIVE Echo(_, _, _, _)
Echo(t, log, k, gameCount) ==
    IF k > Len(log) THEN t
    ELSE Echo(SpawnPipeApply(log[k].pipeData,
                             log[k].pipeId - ShiftLeft20(gameCount) + ShiftLeft20(t.gameCount),
                             t),
              log, k + 1, gameCount)

\* twin after the event that was handled as c: a new session resets it, an
\* action of a later session is folded into it as well, with the SpawnPipe
\* actions that followed
TwinAfter(action, c) ==
    IF c.fold.gameCount > state.gameCount THEN SessionStart(c.fold)
    ELSE IF state.gameCount = 0 THEN twin
    ELSE Echo(reduceState(twin, action), c.log, 1, state.gameCount)

Replayed(action, c, newHits) ==
    /\ Streams(c)
    /\ hits' = newHits
    /\ lastAction' = action
    /\ twin' = TwinAfter(action, c)
    /\ UNCHANGED <<rng, horizon>>

ReplayInit ==
    \E queue \in Schedules :
        /\ InitStreams(queue)
        /\ sharing = [consumer |-> "subscribed",
                      refCount |-> FeedbackSubscriptions + ConsumerSubscriptions,
                      buffered |-> FALSE,
                      late |-> FALSE]
        /\ twin = state
        /\ rng = NoDraw
        /\ horizon = Horizon(TwinTicks, TwinTicks, KeyPeriod)

ReplayTick ==
    /\ Connected
    /\ TickGuard(state) \/ state.time < TickCap
    /\ Replayed("Tick", Handle(TickApply(state), spawned),
                TickHits(Handle(TickApply(state), spawned)))

\* Space while a game runs or before it starts
ReplayFlap ==
    /\ Connected
    /\ KeySlot
    /\ ~state.gameEnd
    /\ Replayed("Flap", Handle(FlapApply(state), spawned), hits)

ReplayPause ==
    /\ Connected
    /\ KeySlot
    /\ Replayed("Pause", Handle(PauseApply(state), spawned), hits)

ReplayRestart ==
    /\ Connected
    /\ KeySlot
    /\ state.gameCount < MaxRestarts
    /\ Replayed("Restart", Handle(RestartApply(state), NoSpawns(state.originalPipeSpawnQueue)),
                <<>>)

ReplayNext == ReplayTick \/ ReplayFlap \/ ReplayPause \/ ReplayRestart

ReplaySpec == ReplayInit /\ [][ReplayNext]_vars

\* pipe ids without the session part
SessionPipeId(id, gameCount) == IF id = -1 THEN id ELSE id - ShiftLeft20(gameCount)

\* a state without gameHistory, gameCount and the session part of its pipe ids
SessionView(s) ==
    [s EXCEPT !.gameHistory = <<>>,
              !.gameCount = 0,
              !.pipes = [i \in 1..Len(s.pipes) |->
                            [s.pipes[i] EXCEPT !.id = SessionPipeId(@, s.gameCount)]],
              !.lastCollisionPipeId = SessionPipeId(@, s.gameCount)]

\* C22: the states of a later session are, in every field except gameHistory,
\* gameCount and the pipe ids, the states the same actions give in a first
\* session
C22_LaterSessionRepeatsFirst ==
    state.gameCount > 0 => SessionView(state) = SessionView(twin)

\* a later session has drawn from the RNG after the session before had
C22_LaterSessionBounced ==
    /\ state.gameCount > 0
    /\ state.lives < INITIAL_LIVES
    /\ state.rngSeed # INITIAL_SEED
    /\ Len(state.gameHistory) = 1
    /\ Len(state.gameHistory[1].birdPositions) > TwinTicks - 10

\* ------------------------------------------------- bounces at both boundaries
\* ticks between two key slots when keys come faster than the bird falls
FineKeyPeriod == 9
\* ticks of `time` in which such keys bring the bird to the top boundary
CeilingTicks == 50

\* a gap narrower than the bird that ends at the bottom boundary, then a wide
\* gap in the middle: on the ground the bird overlaps the upper part of the
\* first pipe, with its centre above the gap centre
GroundGap == <<PD(Pct(99), Pct(2), 16), PD(Pct(50), Pct(40), 1200)>>

\* a second pipe that is due on the Tick on which a bird left to fall after
\* the starting flap loses its last life on the ground
LastFall == <<PD(Pct(99), Pct(12), 208), PD(Pct(50), Pct(40), 1360)>>

\* the two pipes with keys every KeyPeriod ticks; the pipe due at the last
\* fall; no pipe in reach, one short session (a later one is not followed) and
\* keys every FineKeyPeriod ticks
BounceRuns ==
    { [queue |-> GroundGap, horizon |-> GameHorizon],
      [queue |-> LastFall, horizon |-> GameHorizon],
      [queue |-> LongSchedule, horizon |-> Horizon(CeilingTicks, 0, FineKeyPeriod)] }

BounceInit ==
    \E run \in BounceRuns :
        /\ InitStreams(run.queue)
        /\ sharing = [consumer |-> "subscribed",
                      refCount |-> FeedbackSubscriptions + ConsumerSubscriptions,
                      buffered |-> FALSE,
                      late |-> FALSE]
        /\ twin = initialState
        /\ rng = NoDraw
        /\ horizon = run.horizon

BounceSpec == BounceInit /\ [][Next]_vars

\* the pipes of s its bird overlaps outside their gap
PipeHits(s) == { i \in 1..Len(s.pipes) : checkBirdPipeCollision(s.bird, s.pipes[i]) }

AtTop(s) == s.bird.pos.y <= s.bird.radius

AtBottom(s) == s.bird.pos.y >= Px(CANVAS_HEIGHT) - s.bird.radius

\* C30: a gameplay Tick whose bird touches a boundary or a pipe leaves a bounce
\* velocity with magnitude between BOUNCE_VELOCITY_MIN and BOUNCE_VELOCITY_MAX:
\* downwards (positive) at the top boundary or, at no boundary, at a pipe whose
\* gap centre is below the bird's centre, upwards (negative) at the bottom
\* boundary or at a pipe whose gap centre is not below; rngSeed has advanced
\* by one draw.  A Tick without such a collision leaves rngSeed as it was.
C30_BounceAfterCollision ==
    [][GameplayTick =>
          IF AtTop(state') \/ AtBottom(state') \/ PipeHits(state') # {}
            THEN /\ state'.rngSeed = hash(state.rngSeed)
                 /\ \/ state'.bird.vel.y >= Px(BOUNCE_VELOCITY_MIN)
                       /\ state'.bird.vel.y <= Px(BOUNCE_VELOCITY_MAX)
                    \/ 0 - state'.bird.vel.y >= Px(BOUNCE_VELOCITY_MIN)
                       /\ 0 - state'.bird.vel.y <= Px(BOUNCE_VELOCITY_MAX)
                 /\ AtTop(state') => state'.bird.vel.y > 0
                 /\ AtBottom(state') /\ ~AtTop(state') => state'.bird.vel.y < 0
                 /\ ~AtTop(state') /\ ~AtBottom(state') =>
                        /\ (\A i \in PipeHits(state') :
                               state'.bird.pos.y < state'.pipes[i].gapY)
                             => state'.bird.vel.y > 0
                        /\ (\A i \in PipeHits(state') :
                               state'.bird.pos.y >= state'.pipes[i].gapY)
                             => state'.bird.vel.y < 0
            ELSE state'.rngSeed = state.rngSeed]_vars

\* a Tick has bounced the bird off the bottom boundary inside a pipe whose gap
\* centre is below the bird's centre
C30_BoundaryDecided ==
    /\ lastAction = "Tick"
    /\ ~state.gameEnd
    /\ AtBottom(state)
    /\ \E i \in PipeHits(state) : state.bird.pos.y < state.pipes[i].gapY
    /\ state.bird.vel.y < 0
    /\ state.rngSeed # INITIAL_SEED

\* ------------------------------------------------- sessions that meet the power-ups
\* The bird is kept in the air by a Space every FlapPeriod ticks, which brings
\* it through the shrink power-up; from tick LowerFrom on the Space comes
\* LowerPhase ticks later, which brings it through the slow-down power-up.
\* A session is followed from one of these ticks of `time`, for a window:
\* before the 10 s mark
ShrinkSpawnFrom == 620
\* before the bird reaches the shrink power-up
ShrinkCollectFrom == 1030
\* before the 20 s mark
SlowSpawnFrom == 1245
\* before the shrink effect ends
ShrinkEndFrom == 1350
\* before the bird reaches the slow-down power-up
SlowCollectFrom == 1655
\* before the slow-down effect ends
SlowEndFrom == 2155
LowerFrom == 1350
LowerPhase == 9
\* ticks a session is followed: past the event, past the event with keys
\* every FineKeyPeriod ticks, past an unpause countdown
ShortWindow == 20
LongWindow == 70
PauseWindow == 210
\* the one tick with keys in a session followed past an unpause countdown: in
\* the spawn window of the shrink, of the slow-down power-up
ShrinkMarkKey == 630
SlowMarkKey == 1255
\* a session followed from the middle of the shrink effect, with keys at one
\* tick, past an unpause countdown that ends before the effect does and past
\* the end of the effect
ShrinkPauseFrom == 1205
ShrinkPauseKey == 1210
CycleWindow == 225

PowerUpRuns ==
    { [from |-> ShrinkSpawnFrom, window |-> PauseWindow, keyPeriod |-> ShrinkMarkKey],
      [from |-> ShrinkCollectFrom, window |-> ShortWindow, keyPeriod |-> FineKeyPeriod],
      [from |-> SlowSpawnFrom, window |-> PauseWindow, keyPeriod |-> SlowMarkKey],
      [from |-> ShrinkEndFrom, window |-> LongWindow, keyPeriod |-> FineKeyPeriod],
      [from |-> SlowCollectFrom, window |-> ShortWindow, keyPeriod |-> FineKeyPeriod],
      [from |-> SlowEndFrom, window |-> ShortWindow, keyPeriod |-> FineKeyPeriod],
      [from |-> ShrinkPauseFrom, window |-> CycleWindow, keyPeriod |-> ShrinkPauseKey] }

\* the state after n Ticks of such a session
OrbitState(n) ==
    LET low == Play(SessionStart([originalPipeSpawnQueue |-> LongSchedule]),
                    Min2(n, LowerFrom), 0)
    IN  IF low.time < n * TICK_RATE_MS THEN Play(low, n - LowerFrom, LowerPhase) ELSE low

PowerUpInit ==
    \E run \in PowerUpRuns :
        /\ state = OrbitState(run.from)
        /\ StreamsAfter(state)
        /\ twin = initialState
        /\ rng = NoDraw
        /\ horizon = Horizon(run.from + run.window, 0, run.keyPeriod)

PowerUpSpec == PowerUpInit /\ [][Next]_vars

\* C24: after every gameplay Tick the bird lies inside the canvas by its own
\* radius: bird.radius <= bird.pos.y <= CANVAS_HEIGHT - bird.radius
C24_BirdInsideCanvas ==
    [][GameplayTick =>
          /\ state'.bird.radius <= state'.bird.pos.y
          /\ state'.bird.pos.y <= Px(CANVAS_HEIGHT) - state'.bird.radius]_vars

\* C25: in the state a gameplay Tick returns, bird.radius is the base radius
\* times SHRINK_SCALE exactly when that state's shrinkActive is true, and the
\* base radius otherwise
C25_RadiusFollowsShrinkFlag ==
    [][GameplayTick => state'.bird.radius = getCurrentBirdRadius(state')]_vars

\* C26: a gameplay Tick that spawns a power-up, and bounces off nothing,
\* returns the seed that follows the one the spawn position was drawn from
C26_SpawnAdvancesSeed ==
    [][GameplayTick
         /\ state'.powerUpsSpawned = state.powerUpsSpawned + 1
         /\ ~(AtTop(state') \/ AtBottom(state') \/ PipeHits(state') # {})
         => state'.rngSeed = hash(state.rngSeed)]_vars

\* the gameTime mark of a power-up type
SpawnMark(type) == IF type = "shrink" THEN 10 * 1000 ELSE 20 * 1000

\* the power-ups of s that are not in the state before, by id
NewPowerUps(before, s) ==
    { i \in 1..Len(s.powerUps) :
        \A j \in 1..Len(before.powerUps) : before.powerUps[j].id # s.powerUps[i].id }

\* C27: a session has spawned one shrink power-up once its gameTime is past
\* 10 s and one slow-down power-up once it is past 20 s, and none otherwise;
\* a power-up appears on the gameplay Tick applied at its mark, at
\* x = CANVAS_WIDTH and with its square between 33% and 67% of the canvas
\* height; no state holds two power-ups of one type
C27_OneSpawnPerMark ==
    [][/\ state'.powerUpsSpawned =
              (IF state'.gameTime > SpawnMark("shrink") THEN 1 ELSE 0)
            + (IF state'.gameTime > SpawnMark("slowDown") THEN 1 ELSE 0)
       /\ \A type \in {"shrink", "slowDown"} :
              Cardinality({ i \in 1..Len(state'.powerUps) : state'.powerUps[i].type = type }) <= 1
       /\ \A i \in NewPowerUps(state, state') :
              /\ GameplayTick
              /\ state.gameTime = SpawnMark(state'.powerUps[i].type)
              /\ state'.powerUps[i].pos.x = Px(CANVAS_WIDTH)
              /\ state'.powerUps[i].pos.y * 100 >= Px(CANVAS_HEIGHT) * 33
              /\ (state'.powerUps[i].pos.y + Px(POWERUP_SIZE)) * 100 <= Px(CANVAS_HEIGHT) * 67
       /\ GameplayTick =>
              \A type \in {"shrink", "slowDown"} :
                  state.gameTime = SpawnMark(type) =>
                      \E i \in NewPowerUps(state, state') : state'.powerUps[i].type = type]_vars

\* a session paused in the spawn window of the slow-down power-up has left the
\* window with its one slow-down power-up
C27_SpawnedOnceDespitePause ==
    /\ state.gameTime * 10 >= 201 * 1000
    /\ state.time >= state.gameTime + 3 * COUNTDOWN_DURATION_MS
    /\ state.powerUpsSpawned = 2
    /\ \E i \in 1..Len(state.powerUps) : state.powerUps[i].type = "slowDown"

\* the power-ups, moved by one Tick, that the bird of the next state overlaps
CollectedOnTick(type) ==
    { i \in 1..Len(updatePowerUps(state.powerUps)) :
        /\ updatePowerUps(state.powerUps)[i].type = type
        /\ checkPowerUpCollision(state'.bird, updatePowerUps(state.powerUps)[i]) }

\* C28: no state holds a power-up with collected = true.  A gameplay Tick with
\* new time t that collects power-ups removes them from powerUps, sets the
\* flag of their effect with end time t + duration, and adds their number to
\* powerUpsCollected.  On a Tick that collects no power-up of an effect, the
\* flag is true exactly if it was true and new time < end time.
C28_CollectionAndExpiry ==
    [][lastAction' = "Tick" /\ state'.time = state.time + TICK_RATE_MS =>
          /\ \A i \in 1..Len(state'.powerUps) : ~state'.powerUps[i].collected
          /\ GameplayTick =>
                /\ state'.powerUpsCollected = state.powerUpsCollected
                       + Cardinality(CollectedOnTick("shrink"))
                       + Cardinality(CollectedOnTick("slowDown"))
                /\ \A type \in {"shrink", "slowDown"} : \A i \in CollectedOnTick(type) :
                       \A j \in 1..Len(state'.powerUps) :
                           state'.powerUps[j].id # updatePowerUps(state.powerUps)[i].id
                /\ CollectedOnTick("shrink") # {} =>
                       /\ state'.shrinkActive
                       /\ state'.shrinkEndTime = state'.time + SHRINK_DURATION
                /\ CollectedOnTick("slowDown") # {} =>
                       /\ state'.slowDownActive
                       /\ state'.slowDownEndTime = state'.time + SLOW_DOWN_DURATION
          /\ ~(GameplayTick /\ CollectedOnTick("shrink") # {}) =>
                state'.shrinkActive = (state.shrinkActive /\ state'.time < state.shrinkEndTime)
          /\ ~(GameplayTick /\ CollectedOnTick("slowDown") # {}) =>
                state'.slowDownActive =
                    (state.slowDownActive /\ state'.time < state.slowDownEndTime)]_vars

\* C29: slowDownMultiplier is 1.0 while slowDownActive is false and, while it
\* is true, MIN + (1 - MIN) * (time - (slowDownEndTime - SLOW_DOWN_DURATION))
\* / SLOW_DOWN_DURATION with MIN = SLOW_DOWN_MIN_MULTIPLIER, a value between MIN
\* and 1.0
C29_MultiplierFollowsTime ==
    IF state.slowDownActive
      THEN /\ state.slowDownMultiplier * SLOW_DOWN_DURATION =
                  SLOW_DOWN_MIN_MULTIPLIER * SLOW_DOWN_DURATION
                + (Unit - SLOW_DOWN_MIN_MULTIPLIER)
                    * (state.time - (state.slowDownEndTime - SLOW_DOWN_DURATION))
           /\ state.slowDownMultiplier >= SLOW_DOWN_MIN_MULTIPLIER
           /\ state.slowDownMultiplier <= Unit
      ELSE state.slowDownMultiplier = Unit

\* C31: a Tick that takes a life takes one, and sets lastCollisionTime to its
\* new time and lastCollisionPipeId to the id of the first pipe struck, -1 when
\* no pipe is struck; a Tick that takes no life, a Flap of a game that has not
\* ended, a Pause and the SpawnPipe actions that follow leave both unchanged
C31_CollisionBookkeeping ==
    [][/\ lastAction' = "Tick" /\ state'.lives # state.lives =>
              /\ state'.lives = state.lives - 1
              /\ state'.lastCollisionTime = state'.time
              /\ state'.time = state.time + TICK_RATE_MS
              /\ state'.lastCollisionPipeId =
                     IF PipeHits(state') = {} THEN -1
                     ELSE state'.pipes[CHOOSE i \in PipeHits(state') :
                                           \A j \in PipeHits(state') : i <= j].id
       /\ \/ lastAction' = "Tick" /\ state'.lives = state.lives
          \/ lastAction' = "Flap" /\ ~state.gameEnd
          \/ lastAction' = "Pause"
          => /\ state'.lastCollisionTime = state.lastCollisionTime
             /\ state'.lastCollisionPipeId = state.lastCollisionPipeId]_vars

\* a Tick has bounced the bird off a pipe inside the cooldown of an earlier
\* collision, without taking a life
C31_BounceInsideCooldown ==
    /\ lastAction = "Tick"
    /\ ~state.gameEnd
    /\ PipeHits(state) # {}
    /\ state.lives < INITIAL_LIVES
    /\ state.lastCollisionTime < state.time
    /\ state.rngSeed # hash(INITIAL_SEED)

\* ------------------------------------------------- updateBirdPosition on its own
\* the fastest fall followed, in pixels per tick
MaxFallSpeed == 12

\* birds as the tests build them and as the game holds them
BirdInputs ==
    {[pos |-> [x |-> x, y |-> y], vel |-> [x |-> vx, y |-> vy], radius |-> r] :
        x \in {Px(100), INITIAL_X},
        y \in {Px(5), Px(150), INITIAL_Y, Px(CANVAS_HEIGHT - 5)},
        vx \in {0, Px(PIPE_SPEED)},
        vy \in {Px(-10), Px(FLAP_STRENGTH), 0},
        r \in {createBird(0, 0).radius, FMul(createBird(0, 0).radius, SHRINK_SCALE)}}

\* either the game as main.ts runs it, or a bird handed to updateBirdPosition
\* with no stream subscribed
BirdInit ==
    \/ Init
    \/ \E bird \in BirdInputs :
           /\ state = [initialState EXCEPT !.bird = bird]
           /\ pipeGen = [first |-> TRUE, gameTime |-> 0, pipeSpawnIndex |-> 0]
           /\ downstream = [received |-> FALSE, last |-> initialState, order |-> <<>>, states |-> <<>>]
           /\ spawned = NoSpawns(<<>>)
           /\ hits = <<>>
           /\ lastAction = "none"
           /\ ghosts = NoGhosts
           /\ sharing = [consumer |-> "none", refCount |-> 0, buffered |-> FALSE, late |-> FALSE]
           /\ twin = initialState
           /\ rng = NoDraw
           /\ horizon = GameHorizon

\* a direct call: updateBirdPosition(bird)
UpdateBird ==
    /\ ~Connected
    /\ state.bird.vel.y < Px(MaxFallSpeed)
    /\ state' = [state EXCEPT !.bird = updateBirdPosition(state.bird)]
    /\ lastAction' = "updateBirdPosition"
    /\ UNCHANGED <<pipeGen, ghosts, downstream, spawned, hits, sharing, twin, rng, horizon>>

BirdSpec == BirdInit /\ [][Next \/ UpdateBird]_vars

\* C32: updateBirdPosition adds GRAVITY to vel.y, moves pos.y by the new vel.y
\* and keeps it between radius and CANVAS_HEIGHT - radius, and leaves pos.x,
\* vel.x and radius as they are; in the game bird.pos.x is always INITIAL_X and
\* bird.vel.x always 0
C32_GravityStep ==
    [][/\ lastAction' = "updateBirdPosition" =>
              LET bird == state.bird
                  moved == state'.bird
                  y == bird.pos.y + bird.vel.y + GRAVITY
              IN  /\ moved.vel.y = bird.vel.y + GRAVITY
                  /\ moved.pos.y = IF y < bird.radius THEN bird.radius
                                   ELSE IF y > Px(CANVAS_HEIGHT) - bird.radius
                                     THEN Px(CANVAS_HEIGHT) - bird.radius
                                   ELSE y
                  /\ moved.pos.x = bird.pos.x
                  /\ moved.vel.x = bird.vel.x
                  /\ moved.radius = bird.radius
       /\ Connected' => state'.bird.pos.x = INITIAL_X /\ state'.bird.vel.x = 0]_vars

\* a direct call has stopped a rising bird at the top of the canvas
C32_ClampedAtTop ==
    /\ lastAction = "updateBirdPosition"
    /\ state.bird.vel.y < 0
    /\ state.bird.pos.y = state.bird.radius
    /\ state.bird.pos.x # INITIAL_X
    /\ state.bird.vel.x # 0

\* C33: the score and the pipes not yet passed add up to the pipes spawned
\* in every state, so that a won game has scored every pipe spawned
C33_ScorePlusUnpassedIsSpawned ==
    /\ state.score + Cardinality({i \in DOMAIN state.pipes : ~state.pipes[i].passed})
           = state.pipeSpawnIndex
    /\ state.gameWon => state.score = state.pipeSpawnIndex

\* a game has been won after its pipes were scored and removed
C33_WonWithEveryPipeScored ==
    /\ state.gameWon
    /\ state.score > 1
    /\ Len(state.pipes) = 0

\* C34: lives stays within 0..INITIAL_LIVES; the game has ended exactly when it
\* is won or no life is left, and never both
C34_LivesAndOutcome ==
    /\ state.lives \in 0..INITIAL_LIVES
    /\ state.gameEnd <=> (state.gameWon \/ state.lives = 0)
    /\ ~(state.gameWon /\ state.lives = 0)

\* the last life was lost with pipes still on screen
C34_LostWithPipesAhead ==
    /\ state.gameEnd
    /\ state.lives = 0
    /\ ~state.gameWon
    /\ state.pipes # <<>>

\* C35: a paused game is started and not ended; countdown is within 0..3 and
\* is positive only in a started game that is neither paused nor ended; before
\* the game is started time and gameTime are 0 and currentRun is empty
C35_FlowFlags ==
    /\ state.isPaused => state.gameStarted /\ ~state.gameEnd
    /\ state.countdown \in 0..3
    /\ state.countdown > 0 => state.gameStarted /\ ~state.isPaused /\ ~state.gameEnd
    /\ ~state.gameStarted =>
           state.time = 0 /\ state.gameTime = 0 /\ state.currentRun = <<>>

\* the game was paused again while the countdown of a resume was running
C35_PausedDuringCountdown ==
    /\ lastAction = "Pause"
    /\ state.isPaused
    /\ state.countdown = 0
    /\ state.time > state.gameTime

\* C36: currentRun holds one position per TICK_RATE_MS of gameTime, and
\* gameTime never exceeds time; a gameplay Tick appends one position and adds
\* TICK_RATE_MS to both clocks, a countdown Tick adds it to time only, and
\* any other Tick, a Pause and a Flap of a game that has not ended leave
\* currentRun, gameTime and time as they are
C36_RunLengthIsGameTime ==
    [][/\ Len(state'.currentRun) * TICK_RATE_MS = state'.gameTime
       /\ state'.gameTime <= state'.time
       /\ lastAction' = "Tick" /\ ~TickGuard(state) /\ state.countdown = 0 =>
              /\ state'.time = state.time + TICK_RATE_MS
              /\ state'.gameTime = state.gameTime + TICK_RATE_MS
              /\ Len(state'.currentRun) = Len(state.currentRun) + 1
              /\ SubSeq(state'.currentRun, 1, Len(state.currentRun)) = state.currentRun
       /\ lastAction' = "Tick" /\ ~TickGuard(state) /\ state.countdown > 0 =>
              /\ state'.time = state.time + TICK_RATE_MS
              /\ state'.gameTime = state.gameTime
              /\ state'.currentRun = state.currentRun
       /\ \/ lastAction' = "Tick" /\ TickGuard(state)
          \/ lastAction' = "Pause"
          \/ lastAction' = "Flap" /\ ~state.gameEnd
          => /\ state'.time = state.time
             /\ state'.gameTime = state.gameTime
             /\ state'.currentRun = state.currentRun]_vars

\* a gameplay Tick after a whole countdown: the clocks differ by its length
C36_PlayedAfterCountdown ==
    /\ lastAction = "Tick"
    /\ state.countdown = 0
    /\ state.time - state.gameTime >= 3 * COUNTDOWN_DURATION_MS
    /\ Len(state.currentRun) > KeyPeriod

\* C37: once the game has ended, a Tick or a Pause leaves the state as it is,
\* and the state folded last for the Tick that ends the game is the state that
\* Tick returned: no SpawnPipe fed back afterwards changes it
C37_EndedStateIsFinal ==
    [][lastAction' \in {"Tick", "Pause"} =>
           /\ state.gameEnd => state' = state
           /\ lastAction' = "Tick" /\ TickApply(state).gameEnd => state' = TickApply(state)]_vars

\* ------------------------------------------------- the timer alone after the last key
\* ticks of `time` up to which keys are pressed
KeysUntil == 60
\* ticks of `time` a session is followed
FallTicks == 400

FallSchedules == Schedules \cup {LongSchedule, GroundGap}

FallInit ==
    \E queue \in FallSchedules :
        /\ InitStreams(queue)
        /\ sharing = [consumer |-> "subscribed",
                      refCount |-> FeedbackSubscriptions + ConsumerSubscriptions,
                      buffered |-> FALSE,
                      late |-> FALSE]
        /\ twin = initialState
        /\ rng = NoDraw
        /\ horizon = Horizon(FallTicks, FallTicks, KeyPeriod)

KeysLeft == state.time < KeysUntil * TICK_RATE_MS

FallNext == TimerTick \/ (KeysLeft /\ KeyFlap) \/ (KeysLeft /\ KeyPause)

\* a Tick that changes the state is due: the game runs or counts down
TickDue == Connected /\ ~TickGuard(state) /\ state.time < TickCap

\* tick$ is interval(TICK_RATE_MS), so the timer keeps firing: weak fairness of
\* TimerTick, WF_vars(TimerTick), written out with TickDue for
\* ENABLED <<TimerTick>>_vars (a due Tick advances time, so TickDue implies it)
TickFairness == []<>(~TickDue) \/ []<><<TimerTick>>_vars

FallSpec == FallInit /\ [][FallNext]_vars /\ TickFairness

\* C38: a started game that is neither paused nor ended, and that receives
\* Ticks only from then on, ends after finitely many of them
C38_TicksAloneEndTheGame ==
    (state.gameStarted /\ ~state.isPaused /\ ~state.gameEnd /\ ~KeysLeft) ~> state.gameEnd

\* after the last key the countdown of a resume ran out and the falling bird
\* lost all its lives
C38_LostAfterResume ==
    /\ ~KeysLeft
    /\ state.gameEnd
    /\ state.lives = 0
    /\ state.time - state.gameTime >= 3 * COUNTDOWN_DURATION_MS

\* ------------------------------------------------- effects, collisions and pauses
\* ticks of `time` in which the bird strikes a pipe, the game is paused and
\* resumed, and the bird strikes the pipe again
CooldownTicks == 345
\* ticks between two key slots, one of them while the first pipe is at the bird
CooldownKeyPeriod == 28

\* one session with the two pipes of GroundGap (a later one is not followed)
CooldownInit ==
    /\ InitStreams(GroundGap)
    /\ sharing = [consumer |-> "subscribed",
                  refCount |-> FeedbackSubscriptions + ConsumerSubscriptions,
                  buffered |-> FALSE,
                  late |-> FALSE]
    /\ twin = initialState
    /\ rng = NoDraw
    /\ horizon = Horizon(CooldownTicks, 0, CooldownKeyPeriod)

\* the sessions followed around the power-ups, and the session with the pipes
ClockSpec == (PowerUpInit \/ CooldownInit) /\ [][Next]_vars

\* C39: a Tick of a paused game leaves time as it is; a countdown Tick adds
\* TICK_RATE_MS to time and to time - gameTime and leaves gameTime, the effect
\* flags, the end times and lastCollisionTime as they are; a gameplay Tick
\* leaves time - gameTime as it is, keeps an effect it does not collect exactly
\* while its new time is below the end time, and at a pipe struck last takes a
\* life exactly when its new time is COLLISION_COOLDOWN_MS past
\* lastCollisionTime; a Pause and a Flap of a game that has not ended leave
\* time - gameTime, the flags and the end times as they are
C39_EffectsAndCooldownOnTime ==
    [][/\ lastAction' = "Tick" /\ state.isPaused => state'.time = state.time
       /\ lastAction' = "Tick" /\ ~TickGuard(state) /\ state.countdown > 0 =>
              /\ state'.time = state.time + TICK_RATE_MS
              /\ state'.gameTime = state.gameTime
              /\ state'.shrinkActive = state.shrinkActive
              /\ state'.shrinkEndTime = state.shrinkEndTime
              /\ state'.slowDownActive = state.slowDownActive
              /\ state'.slowDownEndTime = state.slowDownEndTime
              /\ state'.lastCollisionTime = state.lastCollisionTime
       /\ lastAction' = "Tick" /\ ~TickGuard(state) /\ state.countdown = 0 =>
              /\ state'.time - state'.gameTime = state.time - state.gameTime
              /\ CollectedOnTick("shrink") = {} =>
                     state'.shrinkActive =
                         (state.shrinkActive /\ state'.time < state.shrinkEndTime)
              /\ CollectedOnTick("slowDown") = {} =>
                     state'.slowDownActive =
                         (state.slowDownActive /\ state'.time < state.slowDownEndTime)
              /\ /\ PipeHits(state') # {}
                 /\ \A i \in PipeHits(state') : \A j \in PipeHits(state') : i <= j =>
                        state'.pipes[i].id = state.lastCollisionPipeId
                 => (state'.lives < state.lives <=>
                        state'.time - state.lastCollisionTime >= COLLISION_COOLDOWN_MS)
       /\ lastAction' = "Pause" \/ (lastAction' = "Flap" /\ ~state.gameEnd) =>
              /\ state'.time - state'.gameTime = state.time - state.gameTime
              /\ state'.shrinkActive = state.shrinkActive
              /\ state'.shrinkEndTime = state.shrinkEndTime
              /\ state'.slowDownActive = state.slowDownActive
              /\ state'.slowDownEndTime = state.slowDownEndTime]_vars

\* the whole countdown of a resume lay inside the shrink effect, and the
\* gameplay Tick whose new time is the end time has cleared the effect: the
\* effect lasted the countdown less than SHRINK_DURATION of gameTime
C39_EffectShortenedByCountdown ==
    /\ lastAction = "Tick"
    /\ ~state.shrinkActive
    /\ state.time = state.shrinkEndTime
    /\ state.countdownTime > state.shrinkEndTime - SHRINK_DURATION
    /\ state.countdownTime + 3 * COUNTDOWN_DURATION_MS < state.shrinkEndTime
    /\ state.time - state.gameTime >= 3 * COUNTDOWN_DURATION_MS

====
